---------------------------- MODULE Spec2Model ----------------------------
(***************************************************************************)
(* The scrape orchestrator of the extension's service worker               *)
(* (src/background.js): fetchAllDetailsViaTabs, its per-item pipeline      *)
(* processNextItem, the runners, and the two message handlers that call    *)
(* it, fetchItemDetails and startFullViewGeneration; the list waits of     *)
(* startFullViewGeneration, buildFullViewHtml, findAndOpenCase, and the    *)
(* chrome.tabs.onUpdated listener that injects the panel.                  *)
(*                                                                         *)
(* JavaScript runs one task at a time: an action of this module is one     *)
(* task of the event loop (an API promise settling, a timer firing, an     *)
(* event or message being dispatched) together with every continuation    *)
(* that runs before the service worker is idle again.  The sequential      *)
(* code of a task is written as a composition of operators over a record   *)
(* holding the whole state (Cur), and Commit installs the result.  An      *)
(* operator that is applied to a state built by others binds it once       *)
(* (CHOOSE next \in {... : s \in {state}}), which is the value of its body. *)
(***************************************************************************)
EXTENDS Integers, Sequences, FiniteSets, TLC

VARIABLES
    request,        \* the message being handled: "none" before it arrives
    itemsToFetch,   \* per invocation: the batch passed to fetchAllDetailsViaTabs
    pool,           \* per invocation: "idle", "running", "returned", "rejected"
    taskQueue,      \* per invocation: indices of the items still queued
    itemIndex,      \* per invocation: the itemIndex counter
    runners,        \* per invocation: runner coroutines that have not finished
    pc,             \* per item: where its processNextItem call is suspended
    tempTab,        \* per item: id of the tab its pipeline holds, 0 for null
    resultsMap,     \* per invocation: url -> record
    scraperTabIds,  \* the module-level Set of tagged tab ids
    updListeners,   \* tab ids with a pipeline chrome.tabs.onUpdated listener
    loadTimers,     \* tab ids whose 12 s readiness timer is pending
    msgListeners,   \* <<tab id, type>> of the pipelines' onMessage listeners
    resTimers,      \* tab ids whose 14 s result timer is pending
    openTabs,       \* browser: ids of the open tabs the orchestrator created
    browserTabId,   \* browser: per item, the id given to the tab it asked for
    nextTabId,      \* browser: next fresh tab id
    inflight,       \* messages sent by injected scrapers, not yet dispatched
    env,            \* per item: how its tab and worker behave
    mishaps,        \* misbehaviours the tabs and workers may still show
    hist,           \* per tab id: history of calls made about it
    responses,      \* sendResponse calls of the fetchItemDetails handler
    coord,          \* position of the startFullViewGeneration handler
    report,         \* timelineItems handed to buildFullViewHtml, once built
    toFetch,        \* notesToFetch and emailsToFetch of startFullViewGeneration
    firstRun,       \* the map returned by the previous run of the same batch
    now,            \* the clock read by new Date()
    gen,            \* startFullViewGeneration before the pools: its position
    finder,         \* findAndOpenCase: its position, tab, load listener and timer,
                    \* and the tab that is in front
    resultListeners,\* << tab id, types >> of the list waits' and the finder's
                    \* onMessage listeners
    statuses,       \* types of the updateStatus messages sent to the sender's tab
    uiSeen          \* << tab id, what the UI-injection listener did >> for the
                    \* 'complete' updates it has handled

vars == << request, itemsToFetch, pool, taskQueue, itemIndex, runners, pc,
           tempTab, resultsMap, scraperTabIds, updListeners, loadTimers,
           msgListeners, resTimers, openTabs, browserTabId, nextTabId,
           inflight, env, mishaps, hist, responses, coord, report, toFetch, firstRun,
           now, gen, finder, resultListeners, statuses, uiSeen >>

-----------------------------------------------------------------------------
(* Bounds of the model *)

\* largest batch, or notes + emails total, in which every item may misbehave
MaxItems == 2

\* most items left in the queue when the runners start, in the batches that
\* are larger than MaxItems
MaxQueued == 1

\* most items above the threshold in one startFullViewGeneration run
MaxOver == 1

\* largest batch that is run twice
MaxRerunItems == 2

\* most clock ticks observed between two runs
MaxTicks == 1

-----------------------------------------------------------------------------
(* Program constants *)

\* a pool that starts one runner more
CONCURRENCY_LIMIT_Five == 4 + 1

CONCURRENCY_LIMIT == 4

\* a comparison `totalItems < 5`
THRESHOLD_Strict == 5 - 1

THRESHOLD == 5

Kinds == {"Note", "Email"}

\* expectedResponseType of a pipeline
ExpectedResponseType(itemType) ==
    IF itemType = "Note" THEN "noteScrapeResult" ELSE "emailScrapeResult"

\* scraperScript of an invocation
ScraperScript(itemType) ==
    IF itemType = "Note" THEN "note_scraper.js" ELSE "email_scraper.js"

-----------------------------------------------------------------------------
(* JavaScript values *)

\* null, undefined and "" are all falsy; one value stands for them in fields
\* that hold text
Empty == ""

\* a || b
OrElse(a, b) == IF a = Empty THEN b ELSE a

\* a ?? b, with Empty standing for null
Coalesce(a, b) == IF a = Empty THEN b ELSE a

\* A Date is <<t>>, t in minutes; null is <<>>
NoDate == << >>

\* new Date(year, month, day, hour, minute): month is 0-based.  The value is
\* order-preserving for the calendar dates used here.
DateValue(year, month, day, hour, minute) ==
    ((((year - 1970) * 12 + month) * 31 + (day - 1)) * 24 + hour) * 60 + minute

\* Date strings.  "dmy" stands for text matching \d{2}/\d{2}/\d{4}\s+\d{2}:\d{2}
\* with the five numbers read; "junk" for text that neither the regex nor
\* Date.parse reads; "none" for a missing or empty string.
DmyStr(a, b, year, hour, minute) ==
    [form |-> "dmy", a |-> a, b |-> b, year |-> year, hour |-> hour, minute |-> minute]

JunkStr == [form |-> "junk", a |-> 0, b |-> 0, year |-> 0, hour |-> 0, minute |-> 0]

NoStr == [form |-> "none", a |-> 0, b |-> 0, year |-> 0, hour |-> 0, minute |-> 0]

\* Date.parse as V8 does it on these strings: a/b/year text is read as
\* month/day/year; the result is NaN (here NoDate) otherwise
DateParse(s) ==
    IF /\ s.form = "dmy"
       /\ s.a >= 1 /\ s.a <= 12 /\ s.b >= 1 /\ s.b <= 31
       /\ s.hour < 24 /\ s.minute < 60
    THEN << DateValue(s.year, s.a - 1, s.b, s.hour, s.minute) >>
    ELSE NoDate

parseDateString(dateString) ==
    IF dateString.form = "none" THEN NoDate
    ELSE LET day    == dateString.a
             month  == dateString.b - 1
             year   == dateString.year
             hour   == dateString.hour
             minute == dateString.minute
         IN  IF /\ dateString.form = "dmy"
                /\ year > 1970 /\ month >= 0 /\ month < 12
                /\ day >= 1 /\ day <= 31
                /\ hour >= 0 /\ hour < 24 /\ minute >= 0 /\ minute < 60
             THEN << DateValue(year, month, day, hour, minute) >>
             ELSE DateParse(dateString)


-----------------------------------------------------------------------------
(* Work items, scraper messages and records *)

\* the date strings the list scrapers hand over, by position in the list:
\* a well-formed date, a missing one, unreadable text, and month/day text
\* that only the Date.parse fallback reads
SampleDates ==
    << DmyStr(5, 3, 2024, 10, 30), NoStr, JunkStr, DmyStr(5, 13, 2024, 9, 0) >>

DateStrOf(i) == SampleDates[((i - 1) % Len(SampleDates)) + 1]

\* { type, url, dateStr } as note_list_scraper.js and email_list_scraper.js
\* build it; every row of a list is another record, so urls are distinct
WorkItem(type, i) == [type |-> type, url |-> << type, i >>, dateStr |-> DateStrOf(i)]

Batch(type, k) == [i \in 1..k |-> WorkItem(type, i)]

\* text of a record's content; tab is the tab id the text names, 0 if none
Text(text, tab) == [text |-> text, tab |-> tab]

\* how the worker injected for one item behaves: it replies in time ("ok",
\* or after an exception it caught before or after it had read the content,
\* "errEarly" and "errLate"), after the deadline ("late"), or never ("silent")
WorkerBehaviours(itemType) ==
    IF itemType = "Note" THEN {"ok", "errEarly", "errLate", "late", "silent"}
    ELSE {"ok", "errEarly", "late", "silent"}

\* note_scraper.js: the message scrapeNoteDetails sends.  An exception in the
\* try block is caught; its text is kept only if no description was read.
scrapeNoteDetails(tab, w) ==
    LET title       == IF w = "errEarly" \/ w = "errLate" THEN Empty ELSE "a note title"
        author      == IF w = "errEarly" \/ w = "errLate" THEN Empty ELSE "a note author"
        read        == IF w = "errEarly" THEN Empty ELSE "a note description"
        description == IF w = "errEarly" \/ w = "errLate"
                       THEN OrElse(read, "Error during scraping: message")
                       ELSE read
    IN  [tab |-> tab, type |-> "noteScrapeResult",
         title |-> title, author |-> author,
         description |-> Coalesce(description, Empty), isPublic |-> "false",
         subject |-> Empty, from |-> Empty, to |-> Empty, bodyHTML |-> Empty]

\* email_scraper.js: the message scrapeEmailDetails sends
scrapeEmailDetails(tab, w) ==
    LET found    == w # "errEarly"
        subject  == IF found THEN "an email subject" ELSE Empty
        from     == IF found THEN "a sender" ELSE Empty
        to       == IF found THEN "a recipient" ELSE Empty
        read     == IF found THEN "an email body" ELSE Empty
        bodyHTML == IF found THEN read
                    ELSE OrElse(read, "[Error during scraping: message]")
    IN  [tab |-> tab, type |-> "emailScrapeResult",
         title |-> Empty, author |-> Empty, description |-> Empty,
         isPublic |-> "null",
         subject |-> Coalesce(subject, Empty), from |-> Coalesce(from, Empty),
         to |-> Coalesce(to, Empty), bodyHTML |-> Coalesce(bodyHTML, Empty)]

\* the injected script is chosen by the invocation's itemType
WorkerMessage(itemType, tab, w) ==
    IF ScraperScript(itemType) = "note_scraper.js"
    THEN scrapeNoteDetails(tab, w)
    ELSE scrapeEmailDetails(tab, w)

\* unifiedResult of processNextItem
UnifiedResult(itemType, itemInfo, scrapeResult) ==
    IF itemType = "Note"
    THEN [type |-> "Note",
          title |-> OrElse(scrapeResult.title, "Note"),
          author |-> OrElse(scrapeResult.author, "Unknown Author"),
          content |-> Text(OrElse(scrapeResult.description, "[No Content]"), 0),
          isPublic |-> scrapeResult.isPublic,
          to |-> Empty,
          dateObject |-> parseDateString(itemInfo.dateStr),
          url |-> itemInfo.url]
    ELSE [type |-> "Email",
          title |-> OrElse(scrapeResult.subject, "Email Subject Not Found"),
          author |-> OrElse(scrapeResult.from, "Unknown Sender"),
          content |-> Text(OrElse(scrapeResult.bodyHTML, "[Email Body Not Found]"), 0),
          isPublic |-> "null",
          to |-> OrElse(scrapeResult.to, "Unknown Recipient(s)"),
          dateObject |-> parseDateString(itemInfo.dateStr),
          url |-> itemInfo.url]

\* an error record that is always stamped with the clock
ErrorRecord_AlwaysNow(itemType, itemInfo, message, clock) ==
    [type |-> itemType, title |-> "[Error processing item]", author |-> "System",
     content |-> message, isPublic |-> "undefined", to |-> Empty,
     dateObject |-> << clock >>, url |-> itemInfo.url]

\* an error record that does not carry error.message
ErrorRecord_NoMessage(itemType, itemInfo, message, clock) ==
    [type |-> itemType, title |-> "[Error processing item]", author |-> "System",
     content |-> Text("[Error processing item]", 0), isPublic |-> "undefined",
     to |-> Empty,
     dateObject |-> IF parseDateString(itemInfo.dateStr) # NoDate
                    THEN parseDateString(itemInfo.dateStr)
                    ELSE << clock >>,
     url |-> itemInfo.url]

\* the record the catch clause of processNextItem builds; clock is new Date()
ErrorRecord(itemType, itemInfo, message, clock) ==
    [type |-> itemType,
     title |-> "[Error processing item]",
     author |-> "System",
     content |-> message,
     isPublic |-> "undefined",
     to |-> Empty,
     dateObject |-> IF parseDateString(itemInfo.dateStr) # NoDate
                    THEN parseDateString(itemInfo.dateStr)
                    ELSE << clock >>,
     url |-> itemInfo.url]

\* obj[key] = value
Put(obj, key, value) ==
    [k \in DOMAIN obj \cup {key} |-> IF k = key THEN value ELSE obj[k]]

EmptyMap == [k \in {} |-> 0]

-----------------------------------------------------------------------------
(* The state as one value, and the sequential code run on it *)

Cur ==
    [request |-> request, itemsToFetch |-> itemsToFetch, pool |-> pool,
     taskQueue |-> taskQueue, itemIndex |-> itemIndex, runners |-> runners,
     pc |-> pc, tempTab |-> tempTab, resultsMap |-> resultsMap,
     scraperTabIds |-> scraperTabIds, updListeners |-> updListeners,
     loadTimers |-> loadTimers, msgListeners |-> msgListeners,
     resTimers |-> resTimers, openTabs |-> openTabs,
     browserTabId |-> browserTabId, nextTabId |-> nextTabId,
     inflight |-> inflight, env |-> env, mishaps |-> mishaps,
     hist |-> hist,
     responses |-> responses, coord |-> coord, report |-> report,
     toFetch |-> toFetch, firstRun |-> firstRun, now |-> now,
     gen |-> gen, finder |-> finder, resultListeners |-> resultListeners,
     statuses |-> statuses, uiSeen |-> uiSeen]

Commit(s) ==
    \E r \in {s} :
       /\ request' = r.request
       /\ itemsToFetch' = r.itemsToFetch
       /\ pool' = r.pool
       /\ taskQueue' = r.taskQueue
       /\ itemIndex' = r.itemIndex
       /\ runners' = r.runners
       /\ pc' = r.pc
       /\ tempTab' = r.tempTab
       /\ resultsMap' = r.resultsMap
       /\ scraperTabIds' = r.scraperTabIds
       /\ updListeners' = r.updListeners
       /\ loadTimers' = r.loadTimers
       /\ msgListeners' = r.msgListeners
       /\ resTimers' = r.resTimers
       /\ openTabs' = r.openTabs
       /\ browserTabId' = r.browserTabId
       /\ nextTabId' = r.nextTabId
       /\ inflight' = r.inflight
       /\ env' = r.env
       /\ mishaps' = r.mishaps
       /\ hist' = r.hist
       /\ responses' = r.responses
       /\ coord' = r.coord
       /\ report' = r.report
       /\ toFetch' = r.toFetch
       /\ firstRun' = r.firstRun
       /\ now' = r.now
       /\ gen' = r.gen
       /\ finder' = r.finder
       /\ resultListeners' = r.resultListeners
       /\ statuses' = r.statuses
       /\ uiSeen' = r.uiSeen

\* the invocation's itemType parameter; an invocation is named by it
ItemType(p) == p

\* history kept per tab id the browser has given out
NewTabHistory(p, i) ==
    [owner |-> << p, i >>, created |-> FALSE, removes |-> 0,
     removeFailed |-> FALSE, registered |-> 0, settles |-> 0,
     settledAs |-> "pending", resolvedBy |-> << >>]

\* a processNextItem that puts a placeholder in the map before it starts
ProcessNextItem_Placeholder(s, p) ==
    LET i == Head(s.taskQueue[p])
    IN  [s EXCEPT !.taskQueue[p] = Tail(@),
                  !.itemIndex[p] = @ + 1,
                  !.pc[p][i] = "creating",
                  !.browserTabId[p][i] = s.nextTabId,
                  !.nextTabId = @ + 1,
                  !.hist = Append(@, NewTabHistory(p, i)),
                  !.resultsMap[p] = Put(@, s.itemsToFetch[p][i].url, "pending")]

\* processNextItem from its start to `await chrome.tabs.create`: the item is
\* shifted off the queue and the tab is asked for; the browser numbers the
\* tabs in the order they are asked for
ProcessNextItem(state, p) ==
    CHOOSE next \in {
        LET i == Head(s.taskQueue[p])
        IN  [s EXCEPT !.taskQueue[p] = Tail(@),
                      !.itemIndex[p] = @ + 1,
                      !.pc[p][i] = "creating",
                      !.browserTabId[p][i] = s.nextTabId,
                      !.nextTabId = @ + 1,
                      !.hist = Append(@, NewTabHistory(p, i))]
        : s \in {state} } : TRUE

\* a runner whose processNextItem threw: its promise rejects, Promise.all
\* rejects and with it fetchAllDetailsViaTabs; the other runners go on
RunnerThrows(s, p) ==
    [s EXCEPT !.runners[p] = @ - 1, !.pool[p] = "rejected"]

\* runner: the while test, then either the next processNextItem or the end of
\* this runner; when the last runner ends Promise.all resolves and
\* fetchAllDetailsViaTabs returns resultsMap
Runner(state, p) ==
    CHOOSE next \in {
        IF Len(s.taskQueue[p]) > 0
        THEN ProcessNextItem(s, p)
        ELSE LET s1 == [s EXCEPT !.runners[p] = @ - 1]
             IN  IF s1.runners[p] = 0 /\ s1.pool[p] = "running"
                 THEN [s1 EXCEPT !.pool[p] = "returned"]
                 ELSE s1
        : s \in {state} } : TRUE

RECURSIVE StartRunners(_, _, _)
\* for (let i = 0; i < CONCURRENCY_LIMIT; i++) runners.push(runner())
StartRunners(s, p, n) ==
    IF n = 0 THEN s ELSE StartRunners(Runner(s, p), p, n - 1)

\* fetchAllDetailsViaTabs from its call to `await Promise.all(runners)`;
\* behaviour is what the tabs and workers of the items will do
fetchAllDetailsViaTabs(s, itemsArg, p, behaviour) ==
    LET k  == Len(itemsArg)
        s0 == [s EXCEPT !.itemsToFetch[p] = itemsArg,
                        !.pool[p] = "running",
                        !.resultsMap[p] = EmptyMap,
                        !.taskQueue[p] = [i \in 1..k |-> i],
                        !.itemIndex[p] = 0,
                        !.runners[p] = CONCURRENCY_LIMIT,
                        !.pc[p] = [i \in 1..k |-> "queued"],
                        !.tempTab[p] = [i \in 1..k |-> 0],
                        !.browserTabId[p] = [i \in 1..k |-> 0],
                        !.env[p] = behaviour]
    IN  StartRunners(s0, p, CONCURRENCY_LIMIT)

\* a finally clause that leaves the tab open
Finally_SkipsRemove(s, p, i) ==
    Runner([s EXCEPT !.pc[p][i] = "done"], p)

\* a finally clause that calls chrome.tabs.remove without awaiting it
Finally_NoAwait(s, p, i) ==
    Runner([s EXCEPT !.pc[p][i] = "done",
                     !.hist[s.tempTab[p][i]].removes =
                         IF s.tempTab[p][i] # 0 THEN @ + 1 ELSE @], p)

\* the finally clause of processNextItem up to `await chrome.tabs.remove`,
\* or through the end of processNextItem and on into the runner when no tab
\* is held
Finally(state, p, i) ==
    CHOOSE next \in {
        IF s.tempTab[p][i] # 0
        THEN [s EXCEPT !.pc[p][i] = "removing",
                       !.hist[s.tempTab[p][i]].removes = @ + 1]
        ELSE Runner([s EXCEPT !.pc[p][i] = "done"], p)
        : s \in {state} } : TRUE

\* a catch clause that only logs
Catch_NoRecord(s, p, i, message) ==
    Finally(s, p, i)

\* a catch clause that throws the error on
Catch_Rethrows(s, p, i, message) ==
    RunnerThrows([s EXCEPT !.pc[p][i] = "done"], p)

\* a pipeline whose cleanup is skipped when the try block throws
Catch_NoFinally(s, p, i, message) ==
    Runner([s EXCEPT !.resultsMap[p] =
                Put(@, s.itemsToFetch[p][i].url,
                    ErrorRecord(ItemType(p), s.itemsToFetch[p][i], message, s.now)),
                     !.pc[p][i] = "done"], p)

\* the catch clause of processNextItem, then finally
Catch(state, p, i, message) ==
    CHOOSE next \in {
        Finally([s EXCEPT !.resultsMap[p] =
                     Put(@, s.itemsToFetch[p][i].url,
                         ErrorRecord(ItemType(p), s.itemsToFetch[p][i], message, s.now))],
                p, i)
        : s \in {state} } : TRUE

\* an exception thrown inside the try block of processNextItem
Throw(s, p, i, message) == Catch(s, p, i, message)

\* the end of the try block after `await resultPromise`, then finally
Normalize(state, p, i, scrapeResult) ==
    CHOOSE next \in {
        Finally([s EXCEPT !.resultsMap[p] =
                     Put(@, s.itemsToFetch[p][i].url,
                         UnifiedResult(ItemType(p), s.itemsToFetch[p][i], scrapeResult))],
                p, i)
        : s \in {state} } : TRUE

-----------------------------------------------------------------------------
(* The callers of fetchAllDetailsViaTabs *)

\* a batch whose tabs and workers are not yet known to misbehave
Unknown(itemsArg) == [i \in 1..Len(itemsArg) |-> "any"]

\* a handler without the test for an empty list: message.items[0].type throws
\* and nothing is sent back
FetchItemDetails_NoGuard(s, itemsArg, behaviour) ==
    IF Len(itemsArg) = 0
    THEN [s EXCEPT !.request = "fetchItemDetails", !.coord = "failed"]
    ELSE fetchAllDetailsViaTabs(
             [s EXCEPT !.request = "fetchItemDetails", !.coord = "fetching"],
             itemsArg, itemsArg[1].type, behaviour)

\* a handler that takes the type of the last item of the request
FetchItemDetails_LastType(s, itemsArg, behaviour) ==
    IF Len(itemsArg) = 0
    THEN [s EXCEPT !.request = "fetchItemDetails",
                   !.coord = "responded",
                   !.responses = Append(@, [status |-> "success", details |-> EmptyMap])]
    ELSE fetchAllDetailsViaTabs(
             [s EXCEPT !.request = "fetchItemDetails", !.coord = "fetching"],
             itemsArg, itemsArg[Len(itemsArg)].type, behaviour)

\* the fetchItemDetails handler, from the message to its return
FetchItemDetails(s, itemsArg, behaviour) ==
    IF Len(itemsArg) = 0
    THEN [s EXCEPT !.request = "fetchItemDetails",
                   !.coord = "responded",
                   !.responses = Append(@, [status |-> "success", details |-> EmptyMap])]
    ELSE fetchAllDetailsViaTabs(
             [s EXCEPT !.request = "fetchItemDetails", !.coord = "fetching"],
             itemsArg, itemsArg[1].type, behaviour)

\* the invocation a fetchItemDetails request started
FetchKind(s) == CHOOSE p \in Kinds : s.pool[p] # "idle"

\* a handler whose .then runs again on every later task of the pool
FetchSettled_Again(s) ==
    IF \A p \in Kinds : s.pool[p] = "idle" THEN s
    ELSE IF s.pool[FetchKind(s)] = "returned"
    THEN [s EXCEPT !.coord = "responded",
                   !.responses = Append(@, [status |-> "success",
                                            details |-> s.resultsMap[FetchKind(s)]])]
    ELSE s

\* .then and .catch of the fetchItemDetails handler
FetchSettled(state) ==
    CHOOSE next \in {
        IF s.coord # "fetching" THEN s
        ELSE IF s.pool[FetchKind(s)] = "returned"
        THEN [s EXCEPT !.coord = "responded",
                       !.responses = Append(@, [status |-> "success",
                                                details |-> s.resultsMap[FetchKind(s)]])]
        ELSE IF s.pool[FetchKind(s)] = "rejected"
        THEN [s EXCEPT !.coord = "responded",
                       !.responses = Append(@, [status |-> "error", details |-> EmptyMap])]
        ELSE s
        : s \in {state} } : TRUE

\* Object.values of a map
Values(obj) == {obj[k] : k \in DOMAIN obj}

\* a handler that starts both pools at once whatever the number of items
StartPools_AlwaysParallel(s, notesToFetch, emailsToFetch) ==
    fetchAllDetailsViaTabs(
        fetchAllDetailsViaTabs(
            [s EXCEPT !.request = "startFullViewGeneration",
                      !.statuses = @ \cup {"info"},
                      !.toFetch = [Note |-> notesToFetch, Email |-> emailsToFetch],
                      !.coord = "parallel"],
            notesToFetch, "Note", Unknown(notesToFetch)),
        emailsToFetch, "Email", Unknown(emailsToFetch))

\* startFullViewGeneration once the lists are known: the choice between the
\* two pools at once and one after the other
StartPools(s, notesToFetch, emailsToFetch) ==
    LET totalItems == Len(notesToFetch) + Len(emailsToFetch)
        s0 == [s EXCEPT !.request = "startFullViewGeneration",
                        !.statuses = @ \cup {"info"},
                        !.toFetch = [Note |-> notesToFetch, Email |-> emailsToFetch]]
    IN  IF totalItems <= THRESHOLD
        THEN fetchAllDetailsViaTabs(
                 fetchAllDetailsViaTabs([s0 EXCEPT !.coord = "parallel"],
                                        notesToFetch, "Note", Unknown(notesToFetch)),
                 emailsToFetch, "Email", Unknown(emailsToFetch))
        ELSE fetchAllDetailsViaTabs([s0 EXCEPT !.coord = "notes"],
                                    notesToFetch, "Note", Unknown(notesToFetch))

\* sequential branch: the Note pool has returned, the Email pool is started
NotesSettled(state) ==
    CHOOSE next \in {
        IF s.coord # "notes" THEN s
        ELSE IF s.pool["Note"] = "returned"
        THEN fetchAllDetailsViaTabs([s EXCEPT !.coord = "emails"],
                                    s.toFetch["Email"], "Email", Unknown(s.toFetch["Email"]))
        ELSE IF s.pool["Note"] = "rejected"
        THEN [s EXCEPT !.coord = "failed"]
        ELSE s
        : s \in {state} } : TRUE

\* Object.values of a map, listed by the position of the items in the batch.
\* (JavaScript lists them in the order the pipelines inserted them; the sort
\* below makes the report independent of that order except among equal dates.)
ValuesInOrder(obj, items) == [i \in 1..Len(items) |-> obj[items[i].url]]

\* the texts of the model that start with 'Error:', '[Fetch Error',
\* '[Body Fetch Error' or '[Content': there is none
ErrorPrefixed == {}

\* one <div class="timeline-item"> of the report
TimelineItem(item) ==
    [url |-> item.url,
     type |-> item.type,
     timestamp |-> item.dateObject,
     title |-> OrElse(item.title, "N/A"),
     author |-> OrElse(item.author, "N/A"),
     content |-> item.content,
     errorMessage |-> item.content.text \in ErrorPrefixed]

\* Array.prototype.sort with (a, b) => new Date(a.dateObject) - new Date(b.dateObject):
\* ascending and stable
SortByDate(seq) ==
    LET Insert(sorted, x) ==
            LET before == {j \in DOMAIN sorted : sorted[j].dateObject[1] <= x.dateObject[1]}
                n == Cardinality(before)
            IN  SubSeq(sorted, 1, n) \o << x >> \o SubSeq(sorted, n + 1, Len(sorted))
        RECURSIVE Sort(_)
        Sort(q) == IF q = << >> THEN << >>
                   ELSE Insert(Sort(SubSeq(q, 1, Len(q) - 1)), q[Len(q)])
    IN  Sort(seq)

\* buildFullViewHtml: the counts of the header and the timeline, which holds
\* the items with a valid dateObject in ascending order
buildFullViewHtml(timelineItems) ==
    LET processedNotes == SelectSeq(timelineItems, LAMBDA i : i.type = "Note")
        processedEmails == SelectSeq(timelineItems, LAMBDA i : i.type = "Email")
        validTimelineItems ==
            SortByDate(SelectSeq(timelineItems, LAMBDA item : item.dateObject # NoDate))
    IN  [items |-> Len(timelineItems),
         notes |-> Len(processedNotes),
         emails |-> Len(processedEmails),
         timeline |-> [k \in DOMAIN validTimelineItems |->
                          TimelineItem(validTimelineItems[k])]]

\* the report before it is built
NoHtml == [items |-> 0, notes |-> 0, emails |-> 0, timeline |-> << >>]

\* a handler that builds the report as soon as one of the pools has returned
PoolsSettled_AnyPool(s) ==
    LET awaited == IF s.coord = "parallel" THEN Kinds
                   ELSE IF s.coord = "emails" THEN {"Email"} ELSE {}
    IN  IF awaited = {} THEN s
        ELSE IF \E p \in awaited : s.pool[p] = "returned"
        THEN [s EXCEPT !.coord = "reported",
                       !.statuses = @ \cup {"success"},
                       !.report = [built |-> TRUE,
                                   items |-> Values(s.resultsMap["Note"])
                                                \cup Values(s.resultsMap["Email"]),
                                   html |-> NoHtml]]
        ELSE s

\* both maps are there: allItems is built and the report window opened
PoolsSettled(state) ==
    CHOOSE next \in {
        LET awaited == IF s.coord = "parallel" THEN Kinds
                       ELSE IF s.coord = "emails" THEN {"Email"} ELSE {}
        IN  IF awaited = {} THEN s
            ELSE IF \E p \in awaited : s.pool[p] = "rejected"
            THEN [s EXCEPT !.coord = "failed"]
            ELSE IF \A p \in awaited : s.pool[p] = "returned"
            THEN [s EXCEPT !.coord = "reported",
                           !.statuses = @ \cup {"success"},
                           !.report =
                               [built |-> TRUE,
                                items |-> Values(s.resultsMap["Note"])
                                             \cup Values(s.resultsMap["Email"]),
                                html |-> buildFullViewHtml(
                                    ValuesInOrder(s.resultsMap["Note"],
                                                  s.itemsToFetch["Note"])
                                    \o ValuesInOrder(s.resultsMap["Email"],
                                                     s.itemsToFetch["Email"]))]]
            ELSE s
        : s \in {state} } : TRUE

\* what the awaiting caller does once the service worker has run a task
Continue(state) ==
    CHOOSE next \in {
        IF s.request = "fetchItemDetails" THEN FetchSettled(s)
        ELSE IF s.request = "startFullViewGeneration" THEN PoolsSettled(NotesSettled(s))
        ELSE s
        : s \in {state} } : TRUE

-----------------------------------------------------------------------------
(* Initial state and the tasks of the event loop *)

Init ==
    /\ request = "none"
    /\ itemsToFetch = [p \in Kinds |-> << >>]
    /\ pool = [p \in Kinds |-> "idle"]
    /\ taskQueue = [p \in Kinds |-> << >>]
    /\ itemIndex = [p \in Kinds |-> 0]
    /\ runners = [p \in Kinds |-> 0]
    /\ pc = [p \in Kinds |-> << >>]
    /\ tempTab = [p \in Kinds |-> << >>]
    /\ resultsMap = [p \in Kinds |-> EmptyMap]
    /\ scraperTabIds = {}
    /\ updListeners = {}
    /\ loadTimers = {}
    /\ msgListeners = {}
    /\ resTimers = {}
    /\ openTabs = {}
    /\ browserTabId = [p \in Kinds |-> << >>]
    /\ nextTabId = 1
    /\ inflight = {}
    /\ env = [p \in Kinds |-> << >>]
    /\ mishaps = 0
    /\ hist = << >>
    /\ responses = << >>
    /\ coord = "idle"
    /\ report = [built |-> FALSE, items |-> {}, html |-> NoHtml]
    /\ toFetch = [p \in Kinds |-> << >>]
    /\ firstRun = << >>
    /\ now = DateValue(2026, 10, 1, 0, 0)
    /\ gen = [pc |-> "idle", ended |-> "no", urls |-> {}, list |-> 0, listTab |-> 0,
              notesToFetch |-> << >>, emailsToFetch |-> << >>]
    /\ finder = [pc |-> "idle", ended |-> "no", tempTab |-> 0, listener |-> FALSE,
                 timeout |-> FALSE, closeReportTabOnSuccess |-> FALSE,
                 active |-> "sender"]
    /\ resultListeners = {}
    /\ statuses = {}
    /\ uiSeen = {}

\* the environment may make item i behave as b
MayBe(p, i, b) ==
    \/ env[p][i] = b
    \/ env[p][i] = "any" /\ (b = "ok" \/ mishaps > 0)

\* state s with item i behaving as b
Behaves(s, p, i, b) ==
    [s EXCEPT !.env[p][i] = b,
              !.mishaps = IF s.env[p][i] = "any" /\ b # "ok" THEN @ - 1 ELSE @]

\* the tabs and workers of a small batch may all misbehave, each once in the
\* pipeline and once when its tab is closed
AllMay(k) == 2 * k

\* a message with action "fetchItemDetails" arrives
OnFetchItemDetails ==
    /\ request = "none"
    /\ \E type \in Kinds, k \in 0..MaxItems :
           Commit(Continue(FetchItemDetails([Cur EXCEPT !.mishaps = AllMay(k)],
                                            Batch(type, k), Unknown(Batch(type, k)))))

\* the same with a batch that leaves items queued; one item may misbehave
OnFetchItemDetailsQueued ==
    /\ request = "none"
    /\ \E type \in Kinds, k \in (MaxItems + 1)..(CONCURRENCY_LIMIT + MaxQueued) :
           Commit(Continue(FetchItemDetails([Cur EXCEPT !.mishaps = 1],
                                            Batch(type, k), Unknown(Batch(type, k)))))

\* a message with action "startFullViewGeneration" arrives and the lists
\* have been read
OnStartFullViewGeneration ==
    /\ request = "none"
    /\ \E n \in 0..MaxItems : \E e \in 0..(MaxItems - n) :
           Commit(Continue(StartPools([Cur EXCEPT !.mishaps = AllMay(n + e)],
                                      Batch("Note", n), Batch("Email", e))))

\* the same with totals around the threshold; no item misbehaves
OnStartFullViewGenerationLarge ==
    /\ request = "none"
    /\ \E n \in 0..(THRESHOLD + MaxOver) : \E e \in 0..(THRESHOLD + MaxOver - n) :
           /\ n + e > MaxItems
           /\ Commit(Continue(StartPools(Cur, Batch("Note", n), Batch("Email", e))))

\* a pipeline that registers its onUpdated listener in a later task than the
\* one in which chrome.tabs.create resolved
CreateOk_LateListener(p, i) ==
    /\ pc[p][i] = "creating"
    /\ env[p][i] # "createFail"
    /\ LET t == browserTabId[p][i]
       IN  Commit([Cur EXCEPT !.tempTab[p][i] = t,
                              !.openTabs = @ \cup {t},
                              !.hist[t].created = TRUE,
                              !.scraperTabIds = @ \cup {t},
                              !.loadTimers = @ \cup {t},
                              !.pc[p][i] = "waitReady"])

\* chrome.tabs.create resolves with the new tab
CreateOk(p, i) ==
    /\ pc[p][i] = "creating"
    /\ env[p][i] # "createFail"
    /\ LET t == browserTabId[p][i]
       IN  Commit([Cur EXCEPT !.tempTab[p][i] = t,
                              !.openTabs = @ \cup {t},
                              !.hist[t].created = TRUE,
                              !.scraperTabIds = @ \cup {t},
                              !.loadTimers = @ \cup {t},
                              !.updListeners = @ \cup {t},
                              !.pc[p][i] = "waitReady"])

\* chrome.tabs.create rejects, or gives a tab without an id
CreateFail(p, i) ==
    /\ pc[p][i] = "creating"
    /\ MayBe(p, i, "createFail")
    /\ Commit(Continue(Throw(Behaves(Cur, p, i, "createFail"), p, i,
                             Text("Failed to create temp tab.", 0))))

\* a 'complete' event after which the script is injected with no waiter
TabComplete_NoWaiter(p, i) ==
    /\ pc[p][i] = "waitReady"
    /\ env[p][i] # "noLoad"
    /\ LET t == tempTab[p][i]
       IN  /\ t \in updListeners
           /\ Commit([Cur EXCEPT !.loadTimers = @ \ {t},
                                 !.updListeners = @ \ {t},
                                 !.pc[p][i] = "injecting"])

\* chrome.tabs.onUpdated reports status 'complete' for the item's tab: the
\* pipeline's listener resolves the readiness wait, the result waiter is
\* registered and chrome.scripting.executeScript is called
TabComplete(p, i) ==
    /\ pc[p][i] = "waitReady"
    /\ env[p][i] # "noLoad"
    /\ LET t == tempTab[p][i]
       IN  /\ t \in updListeners
           /\ Commit([Cur EXCEPT !.loadTimers = @ \ {t},
                                 !.updListeners = @ \ {t},
                                 !.resTimers = @ \cup {t},
                                 !.msgListeners =
                                     @ \cup {<< t, ExpectedResponseType(ItemType(p)) >>},
                                 !.hist[t].registered = @ + 1,
                                 !.pc[p][i] = "injecting"])

\* a readiness wait without a timer
ReadyTimeout_NoTimer(p, i) ==
    /\ pc[p][i] = "waitReady"
    /\ FALSE
    /\ UNCHANGED vars

\* the 12 s readiness timer fires
ReadyTimeout(p, i) ==
    /\ pc[p][i] = "waitReady"
    /\ MayBe(p, i, "noLoad")
    /\ LET t == tempTab[p][i]
       IN  /\ t \in loadTimers
           /\ Commit(Continue(Throw([Behaves(Cur, p, i, "noLoad")
                                        EXCEPT !.loadTimers = @ \ {t},
                                               !.updListeners = @ \ {t}],
                                    p, i, Text("Timeout waiting for tab to load", t))))

\* executeScript resolves: the scraper runs in the tab as worker behaviour w.
\* If the result timer fired while the script was being injected, resultPromise
\* is rejected already and `await resultPromise` throws at once.
InjectOk(p, i) ==
    /\ pc[p][i] = "injecting"
    /\ LET t == tempTab[p][i]
       IN  IF env[p][i] = "slowInject"
           THEN /\ t \notin resTimers
                /\ Commit(Continue(Throw(
                    [Cur EXCEPT !.inflight =
                         @ \cup {WorkerMessage(ItemType(p), t, "ok")}],
                    p, i, Text("Timeout waiting for scrape result from tab", t))))
           ELSE \E w \in WorkerBehaviours(ItemType(p)) :
                   /\ MayBe(p, i, w)
                   /\ Commit([Behaves(Cur, p, i, w) EXCEPT
                          !.pc[p][i] = "waitResult",
                          !.inflight = IF w = "silent" THEN @
                                       ELSE @ \cup {WorkerMessage(ItemType(p), t, w)}])

\* executeScript rejects
InjectFail(p, i) ==
    /\ pc[p][i] = "injecting"
    /\ env[p][i] # "slowInject"
    /\ MayBe(p, i, "injectFail")
    /\ Commit(Continue(Throw(Behaves(Cur, p, i, "injectFail"), p, i,
                             Text("Cannot access contents of the page", 0))))

\* the pipeline of item i of invocation p is suspended on the waiter of tab t
Awaits(p, i, t) == tempTab[p][i] = t /\ pc[p][i] = "waitResult"

\* the settlement of a resultPromise, as the promise sees it: the first call
\* of resolve or reject decides, every call is counted
Settle(h, how) ==
    [h EXCEPT !.settles = @ + 1,
              !.settledAs = IF @ = "pending" THEN how ELSE @]

\* a listener that resolves without clearTimeout
ListenerMatched_KeepsTimer(s, t, type) ==
    [s EXCEPT !.msgListeners = @ \ {<< t, type >>},
              !.hist[t] = Settle(@, "resolved")]

\* the pipeline's onMessage listener on a message it matches: clearTimeout,
\* removeListener, resolve(message)
ListenerMatched(s, t, type) ==
    [s EXCEPT !.resTimers = @ \ {t},
              !.msgListeners = @ \ {<< t, type >>},
              !.hist[t] = Settle(@, "resolved")]

\* a timer callback that leaves the listener registered
TimerFired_KeepsListener(s, t, type) ==
    [s EXCEPT !.resTimers = @ \ {t},
              !.hist[t] = Settle(@, "rejected")]

\* the callback of the 14 s timer: removeListener, reject(new Error(...))
TimerFired(s, t, type) ==
    [s EXCEPT !.resTimers = @ \ {t},
              !.msgListeners = @ \ {<< t, type >>},
              !.hist[t] = Settle(@, "rejected")]

\* chrome.runtime.onMessage dispatches a scraper's message to every listener:
\* the handlers' listener ignores it (it has no action), the pipeline
\* listener of the sender's tab and of that type resolves its resultPromise
\* and the pipeline goes on from `await resultPromise`.  A worker that is
\* "late" has its message dispatched after the timer has fired.
\* a listener that looks at the type of the message only
ListenerTest_TypeOnly(l, m) == m.type = l[2]

\* the test of the pipeline's listener l = << tempTabId, expectedResponseType >>
\* on a message: sender.tab?.id === tempTabId && message.type === expectedResponseType
ListenerTest(l, m) == m.tab = l[1] /\ m.type = l[2]

\* the message is handed to the listeners ls that match it, one after the
\* other; a pipeline suspended on a promise that is resolved goes on with
\* the message as its scrapeResult
RECURSIVE Dispatch(_, _, _)
Dispatch(s, ls, m) ==
    IF ls = {} THEN s
    ELSE LET l == CHOOSE x \in ls : TRUE
             t == l[1]
             p == s.hist[t].owner[1]
             i == s.hist[t].owner[2]
             s1 == [ListenerMatched(s, t, l[2]) EXCEPT
                       !.hist[t].resolvedBy =
                           IF s.hist[t].settledAs = "pending"
                           THEN << m.tab, m.type >> ELSE @]
             s2 == IF /\ s.tempTab[p][i] = t /\ s.pc[p][i] = "waitResult"
                      /\ s.hist[t].settledAs = "pending"
                   THEN Normalize(s1, p, i, m)
                   ELSE s1
         IN  Dispatch(s2, ls \ {l}, m)

DeliverMessage(m) ==
    /\ m \in inflight
    /\ hist[m.tab].owner[1] \in Kinds
    /\ env[hist[m.tab].owner[1]][hist[m.tab].owner[2]] = "late" => m.tab \notin resTimers
    /\ Commit(Continue(Dispatch([Cur EXCEPT !.inflight = @ \ {m}],
                                {l \in msgListeners : ListenerTest(l, m)}, m)))

\* the 14 s result timer of tab t fires; the pipeline goes on from
\* `await resultPromise` if it is suspended there
ResultTimeout(t) ==
    /\ t \in resTimers
    /\ LET p == hist[t].owner[1]
           i == hist[t].owner[2]
           s1 == TimerFired(Cur, t, ExpectedResponseType(ItemType(p)))
       IN  IF Awaits(p, i, t)
           THEN /\ env[p][i] \in {"silent", "late"}
                /\ Commit(Continue(Throw(s1, p, i,
                       Text("Timeout waiting for scrape result from tab", t))))
           ELSE IF tempTab[p][i] = t /\ pc[p][i] = "injecting"
           THEN /\ MayBe(p, i, "slowInject")
                /\ Commit(Behaves(s1, p, i, "slowInject"))
           ELSE Commit(s1)

\* chrome.tabs.remove resolves: the tab is gone and is untagged
RemoveOk(p, i) ==
    /\ pc[p][i] = "removing"
    /\ LET t == tempTab[p][i]
       IN  Commit(Continue(Runner([Cur EXCEPT !.openTabs = @ \ {t},
                                              !.scraperTabIds = @ \ {t},
                                              !.pc[p][i] = "done"], p)))

\* a rejection of chrome.tabs.remove that is not caught
RemoveFail_Propagates(p, i) ==
    /\ pc[p][i] = "removing"
    /\ mishaps > 0
    /\ Commit(Continue(RunnerThrows([Cur EXCEPT !.pc[p][i] = "done",
                                                 !.hist[tempTab[p][i]].removeFailed = TRUE,
                                                 !.mishaps = @ - 1], p)))

\* chrome.tabs.remove rejects: the warning is logged, the tab stays
RemoveFail(p, i) ==
    /\ pc[p][i] = "removing"
    /\ mishaps > 0
    /\ Commit(Continue(Runner([Cur EXCEPT !.pc[p][i] = "done",
                                           !.hist[tempTab[p][i]].removeFailed = TRUE,
                                           !.mishaps = @ - 1], p)))

\* the tasks of one item's pipeline
Pipeline(p, i) ==
    \/ CreateOk(p, i)
    \/ CreateFail(p, i)
    \/ TabComplete(p, i)
    \/ ReadyTimeout(p, i)
    \/ InjectOk(p, i)
    \/ InjectFail(p, i)
    \/ RemoveOk(p, i)
    \/ RemoveFail(p, i)

PoolTasks ==
    \/ \E p \in Kinds : \E i \in DOMAIN pc[p] : Pipeline(p, i)
    \/ \E m \in inflight : DeliverMessage(m)
    \/ \E t \in resTimers : ResultTimeout(t)

Next ==
    \/ OnFetchItemDetails
    \/ OnStartFullViewGeneration
    \/ PoolTasks

Spec == Init /\ [][Next]_vars

\* with batches that leave items queued
NextQueue ==
    \/ OnFetchItemDetails
    \/ OnFetchItemDetailsQueued
    \/ PoolTasks

SpecQueue == Init /\ [][NextQueue]_vars

\* batches of notes that leave items queued; one item may misbehave
OnFetchNotesQueued ==
    /\ request = "none"
    /\ \E k \in (MaxItems + 1)..(CONCURRENCY_LIMIT + MaxQueued) :
           Commit(Continue(FetchItemDetails([Cur EXCEPT !.mishaps = 1],
                                            Batch("Note", k), Unknown(Batch("Note", k)))))

NextRunners ==
    \/ OnFetchNotesQueued
    \/ PoolTasks

SpecRunners == Init /\ [][NextRunners]_vars

\* a request whose items are of any types, in any order
MixedBatch(types) == [i \in DOMAIN types |-> WorkItem(types[i], i)]

\* a message with action "fetchItemDetails" arrives whose items need not be
\* of one type
OnFetchItemDetailsMixed ==
    /\ request = "none"
    /\ \E k \in 1..MaxItems : \E types \in [1..k -> Kinds] :
           Commit(Continue(FetchItemDetails([Cur EXCEPT !.mishaps = AllMay(k)],
                                            MixedBatch(types),
                                            Unknown(MixedBatch(types)))))

NextMixed ==
    \/ OnFetchItemDetailsMixed
    \/ PoolTasks

SpecMixed == Init /\ [][NextMixed]_vars

\* with totals on both sides of the threshold
NextFullView ==
    \/ OnStartFullViewGeneration
    \/ OnStartFullViewGenerationLarge
    \/ PoolTasks

SpecFullView == Init /\ [][NextFullView]_vars

\* a run over the threshold, with more notes than a pool has runners; one
\* tab or worker may misbehave
OnStartFullViewGenerationOver ==
    /\ request = "none"
    /\ \E e \in 1..MaxOver :
           Commit(Continue(StartPools([Cur EXCEPT !.mishaps = 1],
                                      Batch("Note", THRESHOLD), Batch("Email", e))))

NextTabs ==
    \/ OnStartFullViewGenerationLarge
    \/ OnStartFullViewGenerationOver
    \/ PoolTasks

SpecTabs == Init /\ [][NextTabs]_vars

\* a fetchItemDetails request whose batch will be sent again; one item may
\* misbehave
OnFetchItemDetailsFirst ==
    /\ request = "none"
    /\ \E type \in Kinds, k \in 1..MaxRerunItems :
           Commit(Continue(FetchItemDetails([Cur EXCEPT !.mishaps = 1],
                                            Batch(type, k), Unknown(Batch(type, k)))))

\* the same batch is sent again once the first request has been answered;
\* every tab and worker behaves as it did the first time
OnFetchItemDetailsAgain ==
    /\ request = "fetchItemDetails"
    /\ coord = "responded"
    /\ firstRun = << >>
    /\ \E p \in Kinds :
          /\ pool[p] # "idle"
          /\ Commit(Continue(FetchItemDetails(
                 [Cur EXCEPT !.firstRun = << responses[1] >>],
                 itemsToFetch[p], env[p])))

\* the clock advances
Tick ==
    /\ now < DateValue(2026, 10, 1, 0, 0) + MaxTicks
    /\ now' = now + 1
    /\ UNCHANGED << request, itemsToFetch, pool, taskQueue, itemIndex, runners,
                    pc, tempTab, resultsMap, scraperTabIds, updListeners,
                    loadTimers, msgListeners, resTimers, openTabs, browserTabId,
                    nextTabId, inflight, env, mishaps, hist, responses, coord,
                    report, toFetch, firstRun, gen, finder, resultListeners,
                    statuses, uiSeen >>

NextRerun ==
    \/ OnFetchItemDetailsFirst
    \/ OnFetchItemDetailsAgain
    \/ Tick
    \/ PoolTasks

SpecRerun == Init /\ [][NextRerun]_vars

\* What the browser and the clock are bound to do: a pending API call
\* settles, a pending timer fires, a message sent is dispatched.  That a tab
\* finishes loading is not among them.
Scheduled ==
    \/ \E p \in Kinds : \E i \in DOMAIN pc[p] :
          \/ CreateOk(p, i) \/ CreateFail(p, i)
          \/ ReadyTimeout(p, i)
          \/ InjectOk(p, i) \/ InjectFail(p, i)
          \/ RemoveOk(p, i) \/ RemoveFail(p, i)
    \/ \E m \in inflight : DeliverMessage(m)
    \/ \E t \in resTimers : ResultTimeout(t)

\* one invocation of fetchAllDetailsViaTabs, every item free to misbehave
NextLive ==
    \/ OnFetchItemDetails
    \/ PoolTasks

SpecLive == Init /\ [][NextLive]_vars /\ WF_vars(Scheduled)

-----------------------------------------------------------------------------
(* startFullViewGeneration before the pools, and findAndOpenCase *)

\* items a list scraper may find
MaxListed == 1

\* the three lists in the order the handler reads them
Providers == << "notes", "emails", "workOrders" >>

\* the message type each list wait listens for
ListResultType(l) ==
    CASE l = "notes" -> "noteListScrapeResult"
      [] l = "emails" -> "emailListScrapeResult"
      [] l = "workOrders" -> "workOrderScrapeResult"

\* a message with action "startFullViewGeneration" arrives; without a sender
\* tab the handler logs and returns
StartFullViewGeneration ==
    /\ request = "none"
    /\ \E initialTabId \in BOOLEAN :
          Commit(IF initialTabId
                 THEN [Cur EXCEPT !.request = "startFullViewGeneration",
                                  !.statuses = @ \cup {"info"},
                                  !.gen.pc = "scrapeInitialPage"]
                 ELSE [Cur EXCEPT !.request = "startFullViewGeneration",
                                  !.gen.pc = "ended",
                                  !.gen.ended = "noSender"])

\* the async function of the handler ends by an exception: it has no try, so
\* the promise nobody awaits is rejected and nothing else happens
Unhandled(s) ==
    [s EXCEPT !.gen.pc = "ended", !.gen.ended = "rejected"]

\* the next list that has a "View All" url is asked for, or, after the last
\* one, the pools are started
NextList(s) ==
    LET later == {j \in DOMAIN Providers :
                     j > s.gen.list /\ Providers[j] \in s.gen.urls}
    IN  IF later # {}
        THEN [s EXCEPT !.gen.list = CHOOSE j \in later : \A k \in later : j <= k,
                       !.gen.pc = "listCreate",
                       !.statuses = @ \cup {"info"}]
        ELSE Continue(StartPools(
                 [s EXCEPT !.gen.pc = "pools",
                           !.mishaps = AllMay(Len(s.gen.notesToFetch)
                                                + Len(s.gen.emailsToFetch))],
                 s.gen.notesToFetch, s.gen.emailsToFetch))

\* chrome.tabs.sendMessage(initialTabId, scrapeInitialPage) rejects: the tab
\* has no content script listening
ScrapeInitialPageRejects ==
    /\ gen.pc = "scrapeInitialPage"
    /\ Commit(Unhandled(Cur))

\* the content script answers nothing, an error, or no caseDetails
ScrapeInitialPageFails ==
    /\ gen.pc = "scrapeInitialPage"
    /\ Commit([Cur EXCEPT !.statuses = @ \cup {"error"},
                          !.gen.pc = "ended",
                          !.gen.ended = "initialError"])

\* the content script answers with the case details and the urls it found
ScrapeInitialPageOk ==
    /\ gen.pc = "scrapeInitialPage"
    /\ \E urls \in SUBSET {Providers[j] : j \in DOMAIN Providers} :
          Commit(NextList([Cur EXCEPT !.gen.urls = urls]))

\* a list tab that is not tagged
ListCreateOk_Untagged ==
    /\ gen.pc = "listCreate"
    /\ LET t == nextTabId
       IN  Commit([Cur EXCEPT !.nextTabId = @ + 1,
                              !.hist = Append(@, [NewTabHistory(Providers[gen.list], 0)
                                                     EXCEPT !.created = TRUE]),
                              !.openTabs = @ \cup {t},
                              !.gen.listTab = t,
                              !.gen.pc = "listInject"])

\* chrome.windows.create (notes) or chrome.tabs.create resolves: the list
\* tab is tagged and executeScript is called
ListCreateOk ==
    /\ gen.pc = "listCreate"
    /\ LET t == nextTabId
       IN  Commit([Cur EXCEPT !.nextTabId = @ + 1,
                              !.hist = Append(@, [NewTabHistory(Providers[gen.list], 0)
                                                     EXCEPT !.created = TRUE]),
                              !.openTabs = @ \cup {t},
                              !.scraperTabIds = @ \cup {t},
                              !.gen.listTab = t,
                              !.gen.pc = "listInject"])

\* chrome.windows.create or chrome.tabs.create rejects
ListCreateFail ==
    /\ gen.pc = "listCreate"
    /\ Commit(Unhandled(Cur))

\* executeScript resolves and the list wait registers its listener.  The list
\* scraper sends its result with the k items it found (none when it fails),
\* or never sends anything: its tab was closed or navigated away, or it threw
\* outside its try block.
ListInjectOk ==
    /\ gen.pc = "listInject"
    /\ LET t == gen.listTab
           type == ListResultType(Providers[gen.list])
           s1 == [Cur EXCEPT !.resultListeners = @ \cup {<< t, {type} >>},
                             !.gen.pc = "listWait"]
       IN  \/ \E k \in 0..MaxListed :
                 Commit([s1 EXCEPT !.inflight =
                            @ \cup {[tab |-> t, type |-> type, data |-> k]}])
           \/ Commit(s1)

\* executeScript rejects
ListInjectFail ==
    /\ gen.pc = "listInject"
    /\ Commit(Unhandled(Cur))

\* the list wait's listener gets its result: removeListener, resolve(msg); the
\* list is kept and the list tab's removal is asked for
ListResult(m) ==
    /\ m \in inflight
    /\ gen.pc = "listWait"
    /\ \E l \in resultListeners :
          /\ l[1] = m.tab /\ m.type \in l[2]
          /\ Commit([Cur EXCEPT
                 !.inflight = @ \ {m},
                 !.resultListeners = @ \ {l},
                 !.gen.notesToFetch =
                     IF Providers[gen.list] = "notes" THEN Batch("Note", m.data) ELSE @,
                 !.gen.emailsToFetch =
                     IF Providers[gen.list] = "emails" THEN Batch("Email", m.data) ELSE @,
                 !.gen.pc = "listRemove"])

\* chrome.windows.remove or chrome.tabs.remove resolves: the list tab is
\* untagged and the next list is read
ListRemoveOk ==
    /\ gen.pc = "listRemove"
    /\ Commit(NextList([Cur EXCEPT !.openTabs = @ \ {gen.listTab},
                                   !.scraperTabIds = @ \ {gen.listTab},
                                   !.gen.listTab = 0]))

\* chrome.windows.remove or chrome.tabs.remove rejects
ListRemoveFail ==
    /\ gen.pc = "listRemove"
    /\ Commit(Unhandled(Cur))

Lists ==
    \/ ScrapeInitialPageRejects
    \/ ScrapeInitialPageFails
    \/ ScrapeInitialPageOk
    \/ ListCreateOk
    \/ ListCreateFail
    \/ ListInjectOk
    \/ ListInjectFail
    \/ \E m \in inflight : ListResult(m)
    \/ ListRemoveOk
    \/ ListRemoveFail

\* a message with action "findAndOpenCase" arrives: chrome.tabs.create is
\* called for the report tab
OnFindAndOpenCase ==
    /\ request = "none"
    /\ Commit([Cur EXCEPT !.request = "findAndOpenCase",
                          !.finder.pc = "creating"])

\* the finally clause when the report tab is not to be closed: the tab is
\* untagged and left open
FinderLeavesTab(s) ==
    [s EXCEPT !.scraperTabIds = @ \ {s.finder.tempTab},
              !.finder.pc = "ended"]

\* the catch clause once a tab is held, up to its
\* `await chrome.tabs.update(tempTab.id, { active: true })`
FinderCatch(s) ==
    [s EXCEPT !.finder.ended = "error", !.finder.pc = "activating"]

\* chrome.tabs.create resolves: the report tab, created active, is tagged and
\* chrome.tabs.update is called to give the focus back to the sender's tab
FinderCreateOk ==
    /\ finder.pc = "creating"
    /\ LET t == nextTabId
       IN  Commit([Cur EXCEPT !.nextTabId = @ + 1,
                              !.hist = Append(@, [NewTabHistory("finder", 0)
                                                     EXCEPT !.created = TRUE]),
                              !.openTabs = @ \cup {t},
                              !.scraperTabIds = @ \cup {t},
                              !.finder.tempTab = t,
                              !.finder.active = "report",
                              !.finder.pc = "refocus"])

\* chrome.tabs.create rejects: the catch clause logs, there is no tab
FinderCreateFail ==
    /\ finder.pc = "creating"
    /\ Commit([Cur EXCEPT !.finder.pc = "ended", !.finder.ended = "error"])

\* the focus is back on the sender's tab; the load wait sets its 30 s timer
\* and its listener
FinderRefocusOk ==
    /\ finder.pc = "refocus"
    /\ Commit([Cur EXCEPT !.finder.active = "sender",
                          !.finder.timeout = TRUE,
                          !.finder.listener = TRUE,
                          !.finder.pc = "waitLoad"])

\* chrome.tabs.update of the sender's tab rejects
FinderRefocusFail ==
    /\ finder.pc = "refocus"
    /\ Commit(FinderCatch(Cur))

\* the report tab is complete on a Report url: clearTimeout, removeListener;
\* the result listener is registered and executeScript is called
FinderTabComplete ==
    /\ finder.pc = "waitLoad"
    /\ finder.listener
    /\ Commit([Cur EXCEPT !.finder.timeout = FALSE,
                          !.finder.listener = FALSE,
                          !.resultListeners =
                              @ \cup {<< finder.tempTab,
                                         {"caseIdFound", "caseIdNotFound"} >>},
                          !.finder.pc = "injecting"])

\* the 30 s timer fires: removeListener, reject; the catch clause
FinderLoadTimeout ==
    /\ finder.pc = "waitLoad"
    /\ finder.timeout
    /\ Commit(FinderCatch([Cur EXCEPT !.finder.timeout = FALSE,
                                      !.finder.listener = FALSE]))

\* executeScript resolves; case_finder.js reports a case id, or that there is
\* none, or nothing at all
FinderInjectOk ==
    /\ finder.pc = "injecting"
    /\ LET s1 == [Cur EXCEPT !.finder.pc = "waitResult"]
       IN  \/ \E type \in {"caseIdFound", "caseIdNotFound"} :
                 Commit([s1 EXCEPT !.inflight =
                            @ \cup {[tab |-> finder.tempTab, type |-> type]}])
           \/ Commit(s1)

\* executeScript rejects: the catch clause; resultPromise's listener stays
FinderInjectFail ==
    /\ finder.pc = "injecting"
    /\ Commit(FinderCatch(Cur))

\* the result listener gets its message: removeListener, resolve(msg).  With
\* a case id chrome.tabs.create is called for the case page; without one
\* chrome.tabs.update is called to bring the report tab to the front.
FinderResult(m) ==
    /\ m \in inflight
    /\ finder.pc = "waitResult"
    /\ \E l \in resultListeners :
          /\ l[1] = m.tab /\ m.type \in l[2]
          /\ LET s1 == [Cur EXCEPT !.inflight = @ \ {m},
                                   !.resultListeners = @ \ {l}]
             IN  IF m.type = "caseIdFound"
                 THEN Commit([s1 EXCEPT !.finder.pc = "openingCase"])
                 ELSE Commit([s1 EXCEPT !.finder.ended = "notFound",
                                        !.finder.pc = "activating"])

\* a flow that closes the report tab whether or not the case page opened
FinderCaseOpenFail_ClosesTab ==
    /\ finder.pc = "openingCase"
    /\ Commit([Cur EXCEPT !.finder.closeReportTabOnSuccess = TRUE,
                          !.finder.ended = "error",
                          !.scraperTabIds = @ \ {finder.tempTab},
                          !.finder.pc = "removing"])

\* the case page is open, in front: closeReportTabOnSuccess is set; the
\* finally clause untags the report tab and asks for its removal
FinderCaseOpenOk ==
    /\ finder.pc = "openingCase"
    /\ Commit([Cur EXCEPT !.finder.active = "case",
                          !.finder.closeReportTabOnSuccess = TRUE,
                          !.finder.ended = "opened",
                          !.scraperTabIds = @ \ {finder.tempTab},
                          !.finder.pc = "removing"])

\* chrome.tabs.create of the case page rejects: the catch clause
FinderCaseOpenFail ==
    /\ finder.pc = "openingCase"
    /\ Commit(FinderCatch(Cur))

\* chrome.tabs.update has brought the report tab to the front: the finally
\* clause
FinderActivateOk ==
    /\ finder.pc = "activating"
    /\ Commit(FinderLeavesTab([Cur EXCEPT !.finder.active = "report"]))

\* chrome.tabs.update of the report tab rejects.  Called from the try block
\* it throws into the catch clause, which calls it again; called from the
\* catch clause it throws out of it: the finally clause runs and the
\* function ends by a rejection nobody handles.
FinderActivateFail ==
    /\ finder.pc = "activating"
    /\ IF finder.ended = "notFound"
       THEN Commit(FinderCatch(Cur))
       ELSE Commit(FinderLeavesTab([Cur EXCEPT !.finder.ended = "rejected"]))

\* chrome.tabs.remove of the report tab resolves
FinderRemoveOk ==
    /\ finder.pc = "removing"
    /\ Commit([Cur EXCEPT !.openTabs = @ \ {finder.tempTab},
                          !.finder.pc = "ended"])

\* chrome.tabs.remove of the report tab rejects: a warning is logged
FinderRemoveFail ==
    /\ finder.pc = "removing"
    /\ Commit([Cur EXCEPT !.hist[finder.tempTab].removeFailed = TRUE,
                          !.finder.pc = "ended"])

Finder ==
    \/ FinderCreateOk
    \/ FinderCreateFail
    \/ FinderRefocusOk
    \/ FinderRefocusFail
    \/ FinderTabComplete
    \/ FinderLoadTimeout
    \/ FinderInjectOk
    \/ FinderInjectFail
    \/ \E m \in inflight : FinderResult(m)
    \/ FinderCaseOpenOk
    \/ FinderCaseOpenFail
    \/ FinderActivateOk
    \/ FinderActivateFail
    \/ FinderRemoveOk
    \/ FinderRemoveFail

\* the chrome.tabs.onUpdated listener that injects the panel, on an update
\* with status 'complete' of tab t: a tagged tab is skipped; otherwise the
\* url is tested and styles.css, content.js and panel_injector.js are
\* injected.  Every url the orchestrator opens is a /lightning/r/ page of the
\* org, which the pattern matches.  A page may report 'complete' again
\* later, and a tab that missed its deadline may still finish loading.
UiInjectionListener(t) ==
    /\ t \in openTabs
    /\ Commit([Cur EXCEPT !.uiSeen =
                   @ \cup {<< t, IF t \in scraperTabIds THEN "skipped"
                                                        ELSE "injected" >>}])

\* the two flows from their message on
NextFlows ==
    \/ StartFullViewGeneration
    \/ OnFindAndOpenCase
    \/ Lists
    \/ Finder
    \/ PoolTasks
    \/ \E t \in openTabs : UiInjectionListener(t)

SpecFlows == Init /\ [][NextFlows]_vars

\* a fetchItemDetails request with a small batch while the tabs are watched
\* by the UI-injection listener; two of the calls made for its tabs may fail
OnFetchItemDetailsWatched ==
    /\ request = "none"
    /\ \E type \in Kinds, k \in 1..MaxItems :
           Commit(Continue(FetchItemDetails([Cur EXCEPT !.mishaps = 2],
                                            Batch(type, k), Unknown(Batch(type, k)))))

\* the list steps on a case whose lists are empty: no pool has a tab to open
ListsOfNothing ==
    /\ Lists
    /\ gen'.notesToFetch = << >>
    /\ gen'.emailsToFetch = << >>

\* every tab the orchestrator opens, under the UI-injection listener: item
\* tabs of a fetchItemDetails request, list tabs of startFullViewGeneration,
\* the report tab of findAndOpenCase
NextPanel ==
    \/ OnFetchItemDetailsWatched
    \/ StartFullViewGeneration
    \/ OnFindAndOpenCase
    \/ ListsOfNothing
    \/ Finder
    \/ PoolTasks
    \/ \E t \in openTabs : UiInjectionListener(t)

SpecPanel == Init /\ [][NextPanel]_vars

-----------------------------------------------------------------------------
(* Vocabulary of the properties *)

ItemsOf(p) == DOMAIN pc[p]

UrlOf(p, i) == itemsToFetch[p][i].url

HasRecord(p, i) == UrlOf(p, i) \in DOMAIN resultsMap[p]

RecordOf(p, i) == resultsMap[p][UrlOf(p, i)]

IsErrorRecord(r) == r.title = "[Error processing item]" /\ r.author = "System"

\* the record a message of worker behaviour w becomes
NormalRecord(p, i, w) ==
    UnifiedResult(ItemType(p), itemsToFetch[p][i],
                  WorkerMessage(ItemType(p), tempTab[p][i], w))

\* behaviours that make the try block of the pipeline throw
Failures == {"createFail", "noLoad", "injectFail", "slowInject", "late", "silent"}

\* pipelines in the state "tab created, not yet removed"
HoldingTab(p) ==
    {i \in ItemsOf(p) : pc[p][i] \in {"waitReady", "injecting", "waitResult", "removing"}}

\* pipelines started and not ended
Started(p) == {i \in ItemsOf(p) : pc[p][i] \notin {"queued", "done"}}

TabsOf(p) == {t \in DOMAIN hist : hist[t].owner[1] = p}

TimeoutText(t) == Text("Timeout waiting for scrape result from tab", t)

-----------------------------------------------------------------------------
(* Properties *)

\* C1: the map of an invocation only ever has the urls of its batch as keys,
\* and when fetchAllDetailsViaTabs has returned for a batch of k items the
\* map has exactly k entries, one per item, whatever the items did; the
\* response of fetchItemDetails carries that map.
C1_ExactlyKEntries ==
    /\ \A p \in Kinds :
          /\ DOMAIN resultsMap[p] \subseteq {UrlOf(p, i) : i \in ItemsOf(p)}
          /\ pool[p] = "returned" =>
                /\ Cardinality(DOMAIN resultsMap[p]) = Len(itemsToFetch[p])
                /\ \A i \in ItemsOf(p) : HasRecord(p, i)
    /\ \A n \in DOMAIN responses :
          /\ responses[n].status = "success"
          /\ \E p \in Kinds :
                Cardinality(DOMAIN responses[n].details) = Len(itemsToFetch[p])

\* a batch larger than the pool has returned with error and normal records
C1_Witness ==
    \E p \in Kinds :
       /\ pool[p] = "returned"
       /\ Len(itemsToFetch[p]) > CONCURRENCY_LIMIT
       /\ \E i, j \in ItemsOf(p) :
             IsErrorRecord(RecordOf(p, i)) /\ ~IsErrorRecord(RecordOf(p, j))

\* C2: in one invocation never more than 4 pipelines hold a tab (created,
\* not yet removed); nor are more than 4 started and not ended.
C2_AtMostFourTabs ==
    \A p \in Kinds :
       /\ Cardinality(HoldingTab(p)) <= 4
       /\ Cardinality(Started(p)) <= 4

\* four pipelines hold a tab while an item is still queued
C2_Witness ==
    \E p \in Kinds : Cardinality(HoldingTab(p)) = 4 /\ Len(taskQueue[p]) > 0

\* C3: resolve and reject of a resultPromise are called at most once in all;
\* once one has been called neither the timer nor the listener of that tab
\* is registered any more; and when a pipeline whose script ran has gone
\* past `await resultPromise` exactly one call has been made, a resolve if
\* the item's record is a normal one and a reject if it is the timeout error.
C3_SettledOnce ==
    \A t \in DOMAIN hist :
       LET p == hist[t].owner[1]
           i == hist[t].owner[2]
       IN  /\ hist[t].settles <= 1
           /\ hist[t].settles = 1 <=> hist[t].settledAs # "pending"
           /\ hist[t].settles = 1 =>
                 /\ t \notin resTimers
                 /\ << t, ExpectedResponseType(ItemType(p)) >> \notin msgListeners
           /\ ( /\ tempTab[p][i] = t
                /\ pc[p][i] \in {"removing", "done"}
                /\ env[p][i] \in WorkerBehaviours(ItemType(p)) \cup {"slowInject"} )
              => /\ hist[t].settles = 1
                 /\ HasRecord(p, i)
                 /\ IF hist[t].settledAs = "resolved"
                    THEN RecordOf(p, i) = NormalRecord(p, i, env[p][i])
                    ELSE /\ IsErrorRecord(RecordOf(p, i))
                         /\ RecordOf(p, i).content = TimeoutText(t)

\* both orders of the race have been run: one waiter was resolved by its
\* message, another was rejected by its timer and its message came afterwards
C3_Witness ==
    \E t1, t2 \in DOMAIN hist :
       /\ hist[t1].settledAs = "resolved"
       /\ pc[hist[t1].owner[1]][hist[t1].owner[2]] = "done"
       /\ hist[t2].settledAs = "rejected"
       /\ env[hist[t2].owner[1]][hist[t2].owner[2]] = "late"
       /\ pc[hist[t2].owner[1]][hist[t2].owner[2]] = "done"
       /\ \A m \in inflight : m.tab # t2

\* C4: chrome.tabs.remove is never called twice for a tab and never for a
\* tab that was not created; once the pipeline of a created tab has reached
\* the end of its finally clause, by whatever path, it has been called
\* exactly once, and unless that call failed the tab is closed.
C4_TabRemovedOnce ==
    \A t \in DOMAIN hist :
       LET p == hist[t].owner[1]
           i == hist[t].owner[2]
       IN  /\ hist[t].removes <= 1
           /\ ~hist[t].created => hist[t].removes = 0
           /\ hist[t].created /\ pc[p][i] \in {"removing", "done"} =>
                 hist[t].removes = 1
           /\ hist[t].created /\ pc[p][i] = "done" /\ ~hist[t].removeFailed =>
                 t \notin openTabs

\* two pipelines have ended, one normally and one by an exception after its
\* tab was created, and each tab was removed once
C4_Witness ==
    \E t1, t2 \in DOMAIN hist :
       /\ hist[t1].created /\ hist[t1].removes = 1
       /\ pc[hist[t1].owner[1]][hist[t1].owner[2]] = "done"
       /\ env[hist[t1].owner[1]][hist[t1].owner[2]] = "ok"
       /\ hist[t2].created /\ hist[t2].removes = 1
       /\ pc[hist[t2].owner[1]][hist[t2].owner[2]] = "done"
       /\ env[hist[t2].owner[1]][hist[t2].owner[2]] \in {"noLoad", "injectFail", "silent"}

C6_ParallelOrSequential ==
    request = "startFullViewGeneration" =>
       LET totalItems == Len(toFetch["Note"]) + Len(toFetch["Email"])
       IN  /\ totalItems <= 5 => \A p \in Kinds : pool[p] # "idle"
           /\ totalItems > 5 =>
                 /\ pool["Email"] # "idle" => pool["Note"] = "returned"
                 /\ pool["Note"] # "returned" => TabsOf("Email") = {}

\* with exactly 5 items in all, pipelines of both pools hold tabs at once
C6_Witness ==
    /\ request = "startFullViewGeneration"
    /\ Len(toFetch["Note"]) + Len(toFetch["Email"]) = 5
    /\ \A p \in Kinds : pool[p] = "running" /\ HoldingTab(p) # {}

\* C7: when an invocation has returned and its workers either replied in
\* time or never, with the tabs behaving, the map has one entry per item,
\* every silent item has the error record of the result timeout, every other
\* item its normal record, and every tab asked for was created, removed once
\* and is closed and untagged, with no timer or listener of it left.
C7_SilentWorkers ==
    \A p \in Kinds :
       ( /\ pool[p] = "returned"
         /\ \A i \in ItemsOf(p) : env[p][i] \in {"ok", "silent"}
         /\ \A t \in TabsOf(p) : ~hist[t].removeFailed )
       => /\ Cardinality(DOMAIN resultsMap[p]) = Len(itemsToFetch[p])
          /\ \A i \in ItemsOf(p) :
                IF env[p][i] = "silent"
                THEN /\ IsErrorRecord(RecordOf(p, i))
                     /\ RecordOf(p, i).content = TimeoutText(tempTab[p][i])
                ELSE RecordOf(p, i) = NormalRecord(p, i, "ok")
          /\ Cardinality(TabsOf(p)) = Len(itemsToFetch[p])
          /\ \A t \in TabsOf(p) :
                /\ hist[t].created /\ hist[t].removes = 1
                /\ t \notin openTabs /\ t \notin scraperTabIds
                /\ t \notin resTimers /\ t \notin loadTimers /\ t \notin updListeners
                /\ << t, ExpectedResponseType(ItemType(p)) >> \notin msgListeners

\* a batch larger than the pool has returned with exactly one silent worker
C7_Witness ==
    \E p \in Kinds :
       /\ pool[p] = "returned"
       /\ Len(itemsToFetch[p]) > CONCURRENCY_LIMIT
       /\ \E i \in ItemsOf(p) :
             /\ env[p][i] = "silent"
             /\ \A j \in ItemsOf(p) \ {i} : env[p][j] = "ok"
       /\ \A t \in TabsOf(p) : t \notin openTabs

\* C8: a fetchItemDetails request with zero items is answered at once with
\* success and an empty map, and nothing else has happened: no invocation,
\* no tab asked for, no listener, no timer; and an invocation of
\* fetchAllDetailsViaTabs with no items is never seen running: it has
\* returned the empty map in the task that called it, having asked for no
\* tab and counted no item.
C8_EmptyBatch ==
    /\ ( request = "fetchItemDetails" /\ \A p \in Kinds : pool[p] = "idle" ) =>
          /\ responses = << [status |-> "success", details |-> EmptyMap] >>
          /\ coord = "responded"
          /\ hist = << >> /\ nextTabId = 1 /\ openTabs = {} /\ scraperTabIds = {}
          /\ updListeners = {} /\ loadTimers = {}
          /\ msgListeners = {} /\ resTimers = {}
    /\ \A p \in Kinds :
          ( pool[p] # "idle" /\ Len(itemsToFetch[p]) = 0 ) =>
             /\ pool[p] = "returned"
             /\ resultsMap[p] = EmptyMap
             /\ itemIndex[p] = 0 /\ runners[p] = 0
             /\ TabsOf(p) = {}
    /\ ( /\ request = "startFullViewGeneration"
         /\ \A p \in Kinds : Len(toFetch[p]) = 0 ) =>
          /\ coord = "reported" /\ report.built /\ report.items = {}
          /\ hist = << >> /\ nextTabId = 1
          /\ updListeners = {} /\ loadTimers = {}
          /\ msgListeners = {} /\ resTimers = {}

\* the Note invocation was called with no items and has returned the empty
\* map while the Email invocation, called in the same task, is still running
C8_Witness ==
    /\ pool["Note"] = "returned" /\ Len(itemsToFetch["Note"]) = 0
    /\ resultsMap["Note"] = EmptyMap
    /\ pool["Email"] = "running"

\* the date string of the item whose url is u
DateStrAt(u) ==
    LET p == CHOOSE q \in Kinds : \E i \in ItemsOf(q) : UrlOf(q, i) = u
        i == CHOOSE j \in ItemsOf(p) : UrlOf(p, j) = u
    IN  itemsToFetch[p][i].dateStr

\* C9 as stated: the second run of a batch whose tabs and workers behave as
\* in the first run returns a map identical to the first.
C9_RerunIdentical ==
    Len(responses) = 2 => responses[2].details = responses[1].details

\* C9: the two maps have the same keys; the record of an item whose pipeline
\* succeeded is the same in both, a date that cannot be parsed being null in
\* both; the error record of an item that failed is an error record in
\* both, with the same type, title, author, url and message text, and with
\* the same date if the item's date string can be parsed.  The tab id named
\* in the message, and the date when the date string cannot be parsed (it
\* is the time of the run), are not the same.
C9_RerunAgrees ==
    Len(responses) = 2 =>
       LET a == responses[1].details
           b == responses[2].details
       IN  /\ firstRun = << responses[1] >>
           /\ responses[2].status = responses[1].status
           /\ DOMAIN b = DOMAIN a
           /\ \A u \in DOMAIN a :
                 IF ~IsErrorRecord(a[u])
                 THEN /\ b[u] = a[u]
                      /\ a[u].dateObject = parseDateString(DateStrAt(u))
                 ELSE /\ IsErrorRecord(b[u])
                      /\ b[u].type = a[u].type /\ b[u].url = a[u].url
                      /\ b[u].content.text = a[u].content.text
                      /\ b[u].content.tab # 0 => b[u].content.tab # a[u].content.tab
                      /\ IF parseDateString(DateStrAt(u)) # NoDate
                         THEN /\ a[u].dateObject = parseDateString(DateStrAt(u))
                              /\ b[u].dateObject = a[u].dateObject
                         ELSE b[u].dateObject[1] >= a[u].dateObject[1]

\* a batch has been run twice and an item that failed both times, with a
\* date string that cannot be parsed, has two different records
C9_Witness ==
    /\ Len(responses) = 2
    /\ \E u \in DOMAIN responses[1].details :
          /\ IsErrorRecord(responses[1].details[u])
          /\ parseDateString(DateStrAt(u)) = NoDate
          /\ responses[2].details[u].dateObject # responses[1].details[u].dateObject

\* the five error kinds as behaviours of an item's tab and worker
CreateFailed == {"createFail"}

LoadTimeout == {"noLoad"}

InjectFailed == {"injectFail"}

CorrelationTimeout == {"slowInject", "late", "silent"}

ExtractionError == {"errEarly", "errLate"}

C11_EventuallyReturns ==
    \A p \in Kinds :
       (pool[p] = "running") ~>
          ( /\ pool[p] = "returned"
            /\ \A i \in ItemsOf(p) : HasRecord(p, i)
            /\ Cardinality(DOMAIN resultsMap[p]) = Len(itemsToFetch[p]) )

\* an invocation has returned although one of its tabs never finished
\* loading and the worker of another never replied
C11_Witness ==
    \E p \in Kinds :
       /\ pool[p] = "returned"
       /\ \E i, j \in ItemsOf(p) :
             /\ env[p][i] = "noLoad" /\ HasRecord(p, i)
             /\ env[p][j] = "silent" /\ HasRecord(p, j)


\* tabs on whose signal some flow is suspended: a pipeline in its readiness or
\* completion wait, the handler in a list wait, the finder in its load or
\* result wait
SuspendedOn ==
    {tempTab[p][i] : << p, i >> \in
        {x \in UNION {{<< q, j >> : j \in DOMAIN pc[q]} : q \in Kinds} :
            pc[x[1]][x[2]] \in {"waitReady", "waitResult"}}}
    \cup (IF gen.pc = "listWait" THEN {gen.listTab} ELSE {})
    \cup (IF finder.pc \in {"waitLoad", "waitResult"} THEN {finder.tempTab} ELSE {})

\* tabs for which a setTimeout is pending
PendingTimers ==
    loadTimers \cup resTimers \cup (IF finder.timeout THEN {finder.tempTab} ELSE {})

\* C12: every wait on an external signal carries its own deadline: whenever a
\* flow is suspended on a tab's readiness, on an item's completion message, on
\* a list scraper's result or on the case finder's result, a timer is pending
\* that will end that wait.
C12_EveryWaitHasDeadline ==
    SuspendedOn \subseteq PendingTimers


\* the timeline of the report is in non-decreasing order of timestamp
TimelineSorted ==
    LET tl == report.html.timeline
    IN  \A j, k \in DOMAIN tl : j < k => tl[j].timestamp[1] <= tl[k].timestamp[1]

\* the records the report shows: buildFullViewHtml writes one timeline-item
\* per valid item and no other list of records
Reported == {report.html.timeline[k].url : k \in DOMAIN report.html.timeline}

\* C13: once the report is built its timeline is sorted by timestamp, and
\* every record of the two maps is in the output: in the timeline if its
\* timestamp is valid, and in the output all the same if it is not.
C13_SortedAndComplete ==
    report.built =>
        /\ TimelineSorted
        /\ \A p \in Kinds : \A u \in DOMAIN resultsMap[p] : u \in Reported


\* a timeline entry a reader can tell from a normal one: the title and author
\* of the catch clause's record, the error-message style, or the text a
\* scraper puts in place of the content it could not read
MarkedAsError(entry) ==
    \/ entry.title = "[Error processing item]" /\ entry.author = "System"
    \/ entry.errorMessage
    \/ entry.content.text \in {"Error during scraping: message",
                               "[Error during scraping: message]"}

\* the timeline has an entry for item i of invocation p, marked as an error
ShownAsError(p, i) ==
    \E k \in DOMAIN report.html.timeline :
       /\ report.html.timeline[k].url = UrlOf(p, i)
       /\ MarkedAsError(report.html.timeline[k])

\* the items whose pipeline threw are all shown in the report, marked
ThrownFailuresShown ==
    report.built =>
        \A p \in Kinds : \A i \in ItemsOf(p) :
           env[p][i] \in Failures => ShownAsError(p, i)

\* C14: once the report is built, every item whose pipeline failed, whether
\* its try block threw or its scraper reported an extraction error, has an
\* entry in the timeline that is marked as an error; none is dropped.
C14_FailedItemsMarked ==
    report.built =>
        \A p \in Kinds : \A i \in ItemsOf(p) :
           env[p][i] \in Failures \cup ExtractionError => ShownAsError(p, i)


\* no tab id serves two items, and no item has asked for more than one tab
OneTabPerItem ==
    /\ \A p \in Kinds : \A i \in ItemsOf(p) :
          Cardinality({t \in DOMAIN hist : hist[t].owner = << p, i >>}) <= 1
    /\ \A p, q \in Kinds : \A i \in ItemsOf(p) : \A j \in ItemsOf(q) :
          tempTab[p][i] # 0 /\ << p, i >> # << q, j >> => tempTab[p][i] # tempTab[q][j]

\* C15 as stated: tabs are not shared, and once the pipeline of an item has
\* returned control the tab it created is closed.
C15_EveryTabClosed ==
    /\ OneTabPerItem
    /\ \A p \in Kinds : \A i \in ItemsOf(p) :
          pc[p][i] = "done" => tempTab[p][i] \notin openTabs

\* C15, amended: tabs are not shared; once the pipeline of an item has
\* returned control, chrome.tabs.remove has been called once on the tab it
\* created and the tab is closed unless that call was rejected, in which
\* case it is still open; when fetchAllDetailsViaTabs has returned every
\* pipeline has returned control.
C15_EveryTabClosedUnlessRemoveFailed ==
    /\ OneTabPerItem
    /\ \A p \in Kinds : \A i \in ItemsOf(p) :
          pc[p][i] = "done" /\ tempTab[p][i] # 0 =>
             /\ hist[tempTab[p][i]].removes = 1
             /\ tempTab[p][i] \in openTabs <=> hist[tempTab[p][i]].removeFailed
    /\ \A p \in Kinds :
          pool[p] = "returned" => \A i \in ItemsOf(p) : pc[p][i] = "done"

\* a batch with queued items has returned; the removal of one tab was
\* rejected and that tab is open, the other items' tabs are closed
C15_Witness ==
    \E p \in Kinds :
       /\ pool[p] = "returned"
       /\ Len(itemsToFetch[p]) > CONCURRENCY_LIMIT
       /\ \E i \in ItemsOf(p) :
             /\ tempTab[p][i] \in openTabs
             /\ hist[tempTab[p][i]].removeFailed
             /\ \A j \in ItemsOf(p) \ {i} :
                   tempTab[p][j] # 0 /\ tempTab[p][j] \notin openTabs


\* the resultPromise of tab t has been created and is not settled
PendingWaiter(t) == hist[t].registered = 1 /\ hist[t].settledAs = "pending"

\* C16: a tab registers at most one completion waiter, for the message type
\* of its own invocation, so there is at most one per (tab id, type) pair;
\* its listener and its timer are registered exactly while the waiter is
\* pending, and once it is settled, by a message or by the deadline, neither
\* is registered.
C16_OneWaiterPerPair ==
    \A t \in DOMAIN hist :
       /\ hist[t].registered <= 1
       /\ \A l \in msgListeners :
             l[1] = t => l[2] = ExpectedResponseType(ItemType(hist[t].owner[1]))
       /\ PendingWaiter(t) <=> t \in resTimers
       /\ PendingWaiter(t) <=> \E l \in msgListeners : l[1] = t
       /\ hist[t].settledAs # "pending" =>
             t \notin resTimers /\ \A l \in msgListeners : l[1] # t

\* while the waiter of one tab is pending, with its listener and its timer,
\* one of another tab has been resolved and one rejected
C16_Witness ==
    \E t1, t2, t3 \in DOMAIN hist :
       /\ PendingWaiter(t1) /\ t1 \in resTimers
       /\ hist[t2].settledAs = "resolved"
       /\ hist[t3].settledAs = "rejected"


\* a message is dispatched in this step
Dispatched(m) == m \in inflight /\ m \notin inflight'

\* C17: the waiter of tab T for type K is resolved only by a message whose
\* sender is T and whose type is K; the dispatch of any other message, such
\* as one of another tab of the same batch or one of the other pool while
\* both run, leaves it pending with its listener and its timer registered.
C17_OnlyMatchingMessage ==
    [][ \A t \in DOMAIN hist :
           LET type == ExpectedResponseType(ItemType(hist[t].owner[1]))
           IN  /\ hist'[t].settledAs = "resolved" =>
                     hist'[t].resolvedBy = << t, type >>
               /\ hist[t].settledAs = "pending" /\ hist'[t].settledAs = "resolved" =>
                     \E m \in inflight : Dispatched(m) /\ m.tab = t /\ m.type = type
               /\ \A m \in inflight :
                     ( /\ Dispatched(m)
                       /\ m.tab # t \/ m.type # type
                       /\ PendingWaiter(t) )
                     => /\ hist'[t].settledAs = "pending"
                        /\ << t, type >> \in msgListeners'
                        /\ t \in resTimers' ]_vars

\* the waiter of a Note tab is pending while a message of an Email tab has
\* resolved the Email tab's own waiter
C17_Witness ==
    \E t1, t2 \in DOMAIN hist :
       /\ hist[t1].owner[1] = "Note" /\ PendingWaiter(t1)
       /\ hist[t2].owner[1] = "Email" /\ hist[t2].settledAs = "resolved"
       /\ hist[t2].resolvedBy = << t2, "emailScrapeResult" >>


\* C18: in every step the records that are in a map stay as they are, and a
\* key appears only in the step in which the pipeline of the item with that
\* url leaves its try block, by its end or by the catch clause; so each key
\* is written once, by one pipeline, and a message that comes after the
\* timeout does not replace the error record.
C18_WrittenOnce ==
    [][ \A p \in Kinds :
           /\ \A u \in DOMAIN resultsMap[p] :
                 u \in DOMAIN resultsMap'[p] /\ resultsMap'[p][u] = resultsMap[p][u]
           /\ \A u \in DOMAIN resultsMap'[p] \ DOMAIN resultsMap[p] :
                 \E i \in ItemsOf(p) :
                    /\ UrlOf(p, i) = u
                    /\ pc[p][i] \in {"creating", "waitReady", "injecting", "waitResult"}
                    /\ pc'[p][i] \in {"removing", "done"}
                    /\ \A j \in ItemsOf(p) \ {i} : UrlOf(p, j) # u ]_vars

\* the message of a worker that answered after the deadline has been
\* dispatched, and the item still has its timeout error record
C18_Witness ==
    \E p \in Kinds : \E i \in ItemsOf(p) :
       /\ env[p][i] = "late"
       /\ pc[p][i] = "done"
       /\ \A m \in inflight : m.tab # tempTab[p][i]
       /\ HasRecord(p, i)
       /\ RecordOf(p, i).content = TimeoutText(tempTab[p][i])


\* C19: when a startFullViewGeneration flow started from a tab has ended
\* without a report, a collaborator needed before the pools has failed, the
\* failure has been reported as an error status on the originating tab, no
\* pool has been started and no item tab has been asked for.
C19_FailureReported ==
    gen.pc = "ended" /\ gen.ended # "noSender" =>
        /\ gen.ended \in {"initialError", "rejected"}
        /\ "error" \in statuses
        /\ \A p \in Kinds : pool[p] = "idle"
        /\ \A t \in DOMAIN hist : hist[t].owner[1] \notin Kinds


\* chrome.tabs.remove of tab t is rejected in this step
RemoveRejected(t) == ~hist[t].removeFailed /\ hist'[t].removeFailed

\* C20: in a step in which chrome.tabs.remove is rejected the maps stay as
\* they are, with the item's record in place, the invocation is not
\* rejected, and the runner takes the next item if one is queued and ends
\* otherwise; and an invocation that returns, in any step, returns with a
\* record for every item.
C20_RemoveFailureOnlyLogged ==
    [][ /\ \A t \in DOMAIN hist :
              RemoveRejected(t) =>
                 LET p == hist[t].owner[1]
                     i == hist[t].owner[2]
                 IN  /\ HasRecord(p, i)
                     /\ resultsMap' = resultsMap
                     /\ pool'[p] # "rejected"
                     /\ pc'[p][i] = "done"
                     /\ IF taskQueue[p] # << >>
                        THEN /\ pc'[p][Head(taskQueue[p])] = "creating"
                             /\ taskQueue'[p] = Tail(taskQueue[p])
                             /\ runners'[p] = runners[p]
                        ELSE runners'[p] = runners[p] - 1
        /\ \A p \in Kinds :
              /\ pool'[p] # "rejected"
              /\ pool'[p] = "returned" =>
                    \A i \in DOMAIN itemsToFetch'[p] :
                       itemsToFetch'[p][i].url \in DOMAIN resultsMap'[p] ]_vars

\* a batch with a queued item has returned with a record for every item
\* although the removal of one of its tabs was rejected
C20_Witness ==
    \E p \in Kinds :
       /\ pool[p] = "returned"
       /\ Len(itemsToFetch[p]) > CONCURRENCY_LIMIT
       /\ \E t \in TabsOf(p) : hist[t].removeFailed
       /\ \A i \in ItemsOf(p) : HasRecord(p, i)
       /\ Cardinality(DOMAIN resultsMap[p]) = Len(itemsToFetch[p])


\* the position of a suspension point in processNextItem
StepRank(at) ==
    CASE at = "queued" -> 0
      [] at = "creating" -> 1
      [] at = "waitReady" -> 2
      [] at = "injecting" -> 3
      [] at = "waitResult" -> 4
      [] at = "removing" -> 5
      [] at = "done" -> 6

\* the messages in flight that were sent from tab t
SentFrom(t) == {m \in inflight : m.tab = t}

\* C21: a pipeline only moves forward through tab creation, readiness wait,
\* injection, completion wait and tab removal; executeScript is called only
\* in the step in which the tab's 'complete' event is handled, and the
\* waiter is registered in that step; the completion wait is entered only
\* from the injection; a record built from a message is inserted only by a
\* pipeline in its completion wait, in the step that dispatches the message
\* of its tab; remove is called only once the item has its record; a message
\* is in flight only from a tab whose waiter has been registered; and when
\* it is dispatched that waiter is registered still, unless its deadline
\* has fired.
C21_StepsInOrder ==
    [][ /\ \A p \in Kinds : \A i \in ItemsOf(p) \cap DOMAIN pc'[p] :
              LET t == tempTab'[p][i]
              IN  /\ StepRank(pc'[p][i]) >= StepRank(pc[p][i])
                  /\ pc'[p][i] = "waitReady" /\ pc[p][i] # "waitReady" =>
                        pc[p][i] = "creating" /\ hist'[t].created
                  /\ pc'[p][i] = "injecting" /\ pc[p][i] # "injecting" =>
                        /\ pc[p][i] = "waitReady"
                        /\ t \in updListeners /\ t \notin updListeners'
                        /\ hist[t].registered = 0 /\ hist'[t].registered = 1
                        /\ << t, ExpectedResponseType(ItemType(p)) >> \in msgListeners'
                        /\ t \in resTimers'
                  /\ pc'[p][i] = "waitResult" /\ pc[p][i] # "waitResult" =>
                        pc[p][i] = "injecting"
                  /\ ( /\ ~HasRecord(p, i)
                       /\ UrlOf(p, i) \in DOMAIN resultsMap'[p]
                       /\ ~IsErrorRecord(resultsMap'[p][UrlOf(p, i)]) ) =>
                        /\ pc[p][i] = "waitResult"
                        /\ \E m \in SentFrom(t) : Dispatched(m)
                        /\ hist'[t].settledAs = "resolved"
                  /\ pc'[p][i] \in {"removing", "done"} =>
                        UrlOf(p, i) \in DOMAIN resultsMap'[p]
                  /\ t # 0 /\ hist'[t].removes = 1 =>
                        /\ pc'[p][i] \in {"removing", "done"}
                        /\ UrlOf(p, i) \in DOMAIN resultsMap'[p]
        /\ \A m \in inflight' :
              hist'[m.tab].owner[1] \in Kinds =>
                 /\ hist'[m.tab].registered = 1
                 /\ StepRank(pc'[hist'[m.tab].owner[1]][hist'[m.tab].owner[2]]) >= 4
        /\ \A m \in inflight :
              Dispatched(m) /\ hist[m.tab].owner[1] \in Kinds =>
                 \/ << m.tab, m.type >> \in msgListeners
                 \/ hist[m.tab].settledAs = "rejected" ]_vars

\* one pipeline has gone through every step and has its normal record, and
\* the message of another, sent after the deadline, has been dispatched
\* with no waiter registered
C21_Witness ==
    \E t1, t2 \in DOMAIN hist :
       /\ hist[t1].created /\ hist[t1].registered = 1
       /\ hist[t1].settledAs = "resolved" /\ hist[t1].removes = 1
       /\ t1 \notin openTabs
       /\ pc[hist[t1].owner[1]][hist[t1].owner[2]] = "done"
       /\ ~IsErrorRecord(RecordOf(hist[t1].owner[1], hist[t1].owner[2]))
       /\ hist[t2].settledAs = "rejected" /\ hist[t2].registered = 1
       /\ pc[hist[t2].owner[1]][hist[t2].owner[2]] = "done"
       /\ env[hist[t2].owner[1]][hist[t2].owner[2]] \in {"late", "slowInject"}
       /\ SentFrom(t2) = {}
       /\ IsErrorRecord(RecordOf(hist[t2].owner[1], hist[t2].owner[2]))


\* the open tabs that were created for items
ItemTabsOpen == {t \in openTabs : hist[t].owner[1] \in Kinds}

\* the item tabs whose pipeline has not yet left its finally clause
ItemTabsHeld == {tempTab[p][i] : << p, i >> \in
                    UNION {{<< q, j >> : j \in HoldingTab(q)} : q \in Kinds}}

\* the item tabs whose chrome.tabs.remove was rejected
ItemTabsLeft == {t \in DOMAIN hist : hist[t].owner[1] \in Kinds /\ hist[t].removeFailed}

\* C22 as stated: during a startFullViewGeneration run never more than 5
\* item tabs are open, never more than 4 when the run has more than 5 items
\* and never more than the number of items otherwise.
C22_AtMostFiveOpen ==
    request = "startFullViewGeneration" =>
       LET totalItems == Len(toFetch["Note"]) + Len(toFetch["Email"])
           n == Cardinality(ItemTabsOpen)
       IN  /\ n <= 5
           /\ totalItems > 5 => n <= 4
           /\ totalItems <= 5 => n <= totalItems

\* C22, amended: during a startFullViewGeneration run never more than 5 item
\* tabs are held by pipelines, never more than 4 when the run has more than
\* 5 items (and then never by both pools at once) and never more than the
\* number of items otherwise; the open item tabs are those and the ones
\* whose removal was rejected, which stay open for the rest of the run.
C22_AtMostFiveHeld ==
    request = "startFullViewGeneration" =>
       LET totalItems == Len(toFetch["Note"]) + Len(toFetch["Email"])
           n == Cardinality(ItemTabsHeld)
       IN  /\ n <= 5
           /\ totalItems > 5 =>
                 /\ n <= 4
                 /\ HoldingTab("Note") = {} \/ HoldingTab("Email") = {}
           /\ totalItems <= 5 => n <= totalItems
           /\ ItemTabsOpen = ItemTabsHeld \cup ItemTabsLeft
           /\ Cardinality(ItemTabsOpen) <= n + Cardinality(ItemTabsLeft)

\* in a run of more than 5 items four pipelines hold a tab while a fifth
\* item tab, whose removal was rejected, is open too
C22_Witness ==
    /\ request = "startFullViewGeneration"
    /\ Len(toFetch["Note"]) + Len(toFetch["Email"]) > 5
    /\ Cardinality(ItemTabsHeld) = 4
    /\ Cardinality(ItemTabsOpen) = 5
    /\ \E t \in ItemTabsOpen : hist[t].removeFailed


\* both pools have returned with a record for every item, and the report
\* shows the records of the two maps
BothPoolsReturned ==
    /\ \A p \in Kinds :
          /\ pool[p] = "returned"
          /\ \A i \in ItemsOf(p) : HasRecord(p, i) /\ pc[p][i] = "done"
          /\ Cardinality(DOMAIN resultsMap[p]) = Len(toFetch[p])
    /\ report.items = Values(resultsMap["Note"]) \cup Values(resultsMap["Email"])
    /\ report.html.items = Len(toFetch["Note"]) + Len(toFetch["Email"])

\* C23 as stated: the report is built only when both pools have returned,
\* every item has its record and no item tab of the run is open.
C23_NoTabOpenAtReport ==
    report.built => BothPoolsReturned /\ ItemTabsOpen = {}

\* C23, amended: the report is built only when both pools have returned and
\* every item has its record; by then no pipeline holds a tab, the removal
\* of every tab that was created has been asked for once and has settled,
\* and the only item tabs still open are those whose removal was rejected.
C23_ReportAfterBothPools ==
    report.built =>
       /\ BothPoolsReturned
       /\ coord = "reported"
       /\ ItemTabsHeld = {}
       /\ \A t \in DOMAIN hist : hist[t].created => hist[t].removes = 1
       /\ ItemTabsOpen = ItemTabsLeft

\* the report of a run of more than 5 items has been built while an item
\* tab whose removal was rejected is open
C23_Witness ==
    /\ report.built
    /\ Len(toFetch["Note"]) + Len(toFetch["Email"]) > 5
    /\ \A p \in Kinds : pool[p] = "returned" /\ Len(toFetch[p]) > 0
    /\ \E t \in ItemTabsOpen : hist[t].removeFailed


\* the listeners and timers that the pipeline holding tab t has registered
\* and that are still active
ActiveFor(t) ==
    [onUpdated |-> t \in updListeners,
     loadTimer |-> t \in loadTimers,
     onMessage |-> \E l \in msgListeners : l[1] = t,
     resultTimer |-> t \in resTimers]

NoneActive ==
    [onUpdated |-> FALSE, loadTimer |-> FALSE, onMessage |-> FALSE, resultTimer |-> FALSE]

\* C24: once the pipeline of an item has returned, no onUpdated listener,
\* onMessage listener or timer that it registered for its tab is active,
\* whatever made it return, a rejected executeScript included.
C24_NothingLeftActive ==
    \A p \in Kinds : \A i \in ItemsOf(p) :
       pc[p][i] = "done" /\ tempTab[p][i] # 0 =>
          ActiveFor(tempTab[p][i]) = NoneActive


\* the record of the item is the error record of the readiness timeout
LoadTimeoutRecord(p, i) ==
    /\ HasRecord(p, i)
    /\ IsErrorRecord(RecordOf(p, i))
    /\ RecordOf(p, i).content.text = "Timeout waiting for tab to load"

\* C25: from the step in which chrome.tabs.create resolves, and for as long
\* as the pipeline is in its readiness wait, its onUpdated listener and its
\* 12 s timer are both registered, so that no 'complete' event of the tab
\* finds the pipeline waiting without a listener; the listener is registered
\* at no other time; a pipeline whose tab signalled 'complete' during the
\* wait has gone on to the injection, and an item has the readiness-timeout
\* record only if its tab signalled nothing before the timer fired.
C25_NoReadinessEventLost ==
    \A t \in DOMAIN hist :
       LET p == hist[t].owner[1]
           i == hist[t].owner[2]
       IN  /\ t \in openTabs => hist[t].created /\ tempTab[p][i] = t
           /\ t \in openTabs /\ pc[p][i] \notin {"removing", "done"} =>
                 \/ /\ pc[p][i] = "waitReady"
                    /\ t \in updListeners /\ t \in loadTimers
                 \/ /\ pc[p][i] \in {"injecting", "waitResult"}
                    /\ hist[t].registered = 1
           /\ t \in updListeners \/ t \in loadTimers =>
                 pc[p][i] = "waitReady" /\ tempTab[p][i] = t
           /\ LoadTimeoutRecord(p, i) =>
                 /\ env[p][i] = "noLoad"
                 /\ hist[t].registered = 0
                 /\ RecordOf(p, i).content.tab = t
           /\ hist[t].registered = 1 => ~LoadTimeoutRecord(p, i)

\* one tab signalled 'complete' during its wait and its item has a normal
\* record; another signalled nothing and its item has the readiness-timeout
\* record
C25_Witness ==
    \E t1, t2 \in DOMAIN hist :
       /\ hist[t1].registered = 1
       /\ pc[hist[t1].owner[1]][hist[t1].owner[2]] = "done"
       /\ ~IsErrorRecord(RecordOf(hist[t1].owner[1], hist[t1].owner[2]))
       /\ pc[hist[t2].owner[1]][hist[t2].owner[2]] = "done"
       /\ LoadTimeoutRecord(hist[t2].owner[1], hist[t2].owner[2])
       /\ hist[t2].created /\ hist[t2].registered = 0


\* the tabs into which the UI-injection listener has injected the panel
PanelInjected == {x[1] : x \in {y \in uiSeen : y[2] = "injected"}}

\* the tabs opened for the items and for the lists
ItemAndListTabs ==
    {t \in DOMAIN hist : hist[t].owner[1] \in Kinds \cup {"notes", "emails", "workOrders"}}

\* the report tab of findAndOpenCase
FinderTabs == {t \in DOMAIN hist : hist[t].owner[1] = "finder"}

\* C26 as stated: the panel is never injected into a tab the orchestrator
\* created, and every such tab is tagged for as long as it is open.
C26_NeverInjectedIntoOwnTab ==
    /\ PanelInjected = {}
    /\ \A t \in DOMAIN hist : t \in openTabs => t \in scraperTabIds

\* C26, amended: the panel is never injected into an item tab or a list tab:
\* each is tagged from the step in which its creation resolves and stays
\* tagged until it is closed (and for good if it is never closed).  The
\* report tab of findAndOpenCase is tagged only while the flow runs; the
\* finally clause untags it before it is closed or left open, and only from
\* then on may the panel be injected into it.
C26_NoPanelInItemOrListTab ==
    /\ PanelInjected \subseteq FinderTabs
    /\ \A t \in ItemAndListTabs :
          /\ t \in openTabs => t \in scraperTabIds
          /\ << t, "injected" >> \notin uiSeen
    /\ \A t \in FinderTabs :
          /\ finder.pc \in {"refocus", "waitLoad", "injecting", "waitResult",
                          "openingCase", "activating"} =>
                t \in openTabs /\ t \in scraperTabIds
          /\ << t, "injected" >> \in uiSeen =>
                finder.pc \in {"removing", "ended"} /\ t \notin scraperTabIds

\* the listener skipped the report tab while findAndOpenCase was running and
\* injected the panel into it once the flow had left it open
C26_Witness ==
    \E t \in FinderTabs :
       /\ finder.pc = "ended" /\ finder.ended \in {"notFound", "error"}
       /\ t \in openTabs
       /\ << t, "skipped" >> \in uiSeen
       /\ << t, "injected" >> \in uiSeen


\* a handler that tags tabs has been called and has not come to its end
ScrapeFlowInProgress ==
    \/ request = "fetchItemDetails" /\ coord # "responded"
    \/ /\ request = "startFullViewGeneration"
       /\ gen.pc # "ended"
       /\ coord \notin {"reported", "failed"}
    \/ request = "findAndOpenCase" /\ finder.pc # "ended"

\* C27: whenever no scrape flow is in progress scraperTabIds is empty,
\* whatever path the flow that tagged tabs took to its end.
C27_EmptyWhenIdle ==
    ~ScrapeFlowInProgress => scraperTabIds = {}


\* what was used for item i of invocation p agrees with the type `type`:
\* the waiter's message type, the type of the message the injected script
\* sends, which tells the script, and the type of the record
HandledAs(p, i, type) ==
    LET t == tempTab[p][i]
    IN  /\ \A l \in msgListeners : l[1] = t => l[2] = ExpectedResponseType(type)
        /\ \A m \in SentFrom(t) :
              /\ m.type = ExpectedResponseType(type)
              /\ m = WorkerMessage(type, t, env[p][i])
        /\ HasRecord(p, i) => RecordOf(p, i).type = type

\* C28 as stated: every item of a fetchItemDetails request is handled as its
\* own type, in a request that mixes the types too.
C28_HandledAsOwnType ==
    request = "fetchItemDetails" =>
       \A p \in Kinds : \A i \in ItemsOf(p) :
          HandledAs(p, i, itemsToFetch[p][i].type)

\* C28, amended: every item of a fetchItemDetails request is handled as the
\* type of the first item of the request: that type chooses the script, the
\* expected message type and the record type for the whole batch.  An item
\* is handled as its own type exactly when its type is that of the first
\* item, as for every item of a request of one type.
C28_HandledAsFirstType ==
    request = "fetchItemDetails" =>
       \A p \in Kinds : \A i \in ItemsOf(p) :
          /\ p = itemsToFetch[p][1].type
          /\ HandledAs(p, i, itemsToFetch[p][1].type)
          /\ HasRecord(p, i) =>
                ( RecordOf(p, i).type = itemsToFetch[p][i].type
                  <=> itemsToFetch[p][i].type = itemsToFetch[p][1].type )

\* a request of a Note and an Email has been answered; the Email item's
\* worker replied and its record is a normal record of type Note
C28_Witness ==
    /\ request = "fetchItemDetails" /\ coord = "responded"
    /\ \E i \in ItemsOf("Note") :
          /\ itemsToFetch["Note"][i].type = "Email"
          /\ RecordOf("Note", i).type = "Note"
          /\ ~IsErrorRecord(RecordOf("Note", i))
          /\ responses[1].details[UrlOf("Note", i)].type = "Note"


\* the urls of the items of the request
RequestedUrls == UNION {{UrlOf(p, i) : i \in ItemsOf(p)} : p \in Kinds}

\* the request has its one response: success with an entry for every item
\* requested, or error
AnsweredOnce ==
    /\ Len(responses) = 1
    /\ coord = "responded"
    /\ responses[1].status \in {"success", "error"}
    /\ responses[1].status = "success" =>
          /\ DOMAIN responses[1].details = RequestedUrls
          /\ Cardinality(RequestedUrls)
                = Len(itemsToFetch["Note"]) + Len(itemsToFetch["Email"])

\* C29: sendResponse is never called twice for a fetchItemDetails request,
\* each call carries success with one entry per requested item or error, and
\* every request is eventually answered, whatever its items do, provided
\* pending API calls settle, timers fire and sent messages are dispatched.
C29_ExactlyOneResponse ==
    /\ [](Len(responses) <= 1 /\ (Len(responses) = 1 => AnsweredOnce))
    /\ (request = "fetchItemDetails") ~> AnsweredOnce

\* a request of two items has its one response although one worker
\* answered after the deadline, and tasks of the pool have run since
C29_Witness ==
    /\ AnsweredOnce
    /\ \E p \in Kinds :
          /\ Len(itemsToFetch[p]) = 2
          /\ \E i, j \in ItemsOf(p) :
                /\ env[p][i] = "late" /\ SentFrom(tempTab[p][i]) = {}
                /\ IsErrorRecord(responses[1].details[UrlOf(p, i)])
                /\ ~IsErrorRecord(responses[1].details[UrlOf(p, j)])


\* C30 as stated: when findAndOpenCase has ended having created its report
\* tab, the tab is closed if and only if a case id was found and the case
\* page was opened; otherwise it is open and in front; and it is untagged.
C30_ClosedIffCaseOpened ==
    finder.pc = "ended" /\ finder.tempTab # 0 =>
       /\ finder.tempTab \notin openTabs <=> finder.ended = "opened"
       /\ finder.ended # "opened" =>
             finder.tempTab \in openTabs /\ finder.active = "report"
       /\ finder.tempTab \notin scraperTabIds

\* C30, amended: when findAndOpenCase has ended having created its report
\* tab, the tab is untagged; it is closed only if a case id was found and
\* the case page was opened, and in that case it is closed unless
\* chrome.tabs.remove was rejected, the case page being in front; on every
\* other outcome it is open, and it is in front unless chrome.tabs.update
\* was rejected in the catch clause.  Until the flow ends the tab is open
\* and tagged, and its removal is asked for only with the case page open.
C30_ClosedOnlyIfCaseOpened ==
    /\ finder.pc = "ended" /\ finder.tempTab # 0 =>
          LET t == finder.tempTab
          IN  /\ t \notin scraperTabIds
              /\ finder.ended \in {"opened", "notFound", "error", "rejected"}
              /\ t \notin openTabs =>
                    finder.ended = "opened" /\ finder.closeReportTabOnSuccess
              /\ finder.ended = "opened" =>
                    /\ t \notin openTabs <=> ~hist[t].removeFailed
                    /\ finder.active = "case"
              /\ finder.ended \in {"notFound", "error"} =>
                    t \in openTabs /\ finder.active = "report"
              /\ finder.ended = "rejected" => t \in openTabs
    /\ finder.pc = "ended" /\ finder.tempTab = 0 =>
          finder.ended = "error" /\ scraperTabIds = {}
    /\ finder.pc = "removing" =>
          finder.ended = "opened" /\ finder.closeReportTabOnSuccess
    /\ finder.pc \notin {"idle", "creating", "removing", "ended"} =>
          finder.tempTab \in openTabs /\ finder.tempTab \in scraperTabIds

\* the flow has ended with the case page open and in front and the report
\* tab closed and untagged
C30_Witness ==
    /\ finder.pc = "ended" /\ finder.ended = "opened"
    /\ finder.tempTab # 0
    /\ finder.tempTab \notin openTabs
    /\ finder.tempTab \notin scraperTabIds
    /\ finder.active = "case"

=============================================================================
